---------------------------- MODULE Spec2Model ----------------------------
(***************************************************************************)
(* A model of obsidian-prompt-flow: the link expansion of a note           *)
(* (expandLinkedFiles: the breadth-first walk of links and embeds and the  *)
(* assembly of the linked content).                                        *)
(*                                                                         *)
(* A JavaScript string is a sequence of one-character strings, so that     *)
(* indexOf, substring, trim, concatenation and join are computed as the    *)
(* code computes them.                                                     *)
(***************************************************************************)
EXTENDS Integers, Sequences, FiniteSets, TLC

(***************************************************************************)
(* Strings                                                                 *)
(***************************************************************************)
Range(s) == {s[i] : i \in 1..Len(s)}

\* mutant: the start offset is ignored
Substring_FromZero(s, start, end) ==
    SubSeq(s, 1, IF end < 0 THEN 0 ELSE IF end > Len(s) THEN Len(s) ELSE end)

\* s.substring(start, end): 0-based, end exclusive; both are clamped to
\* 0..s.length and swapped when start > end
Substring(s, start, end) ==
    LET Clamp(x) == IF x < 0 THEN 0 ELSE IF x > Len(s) THEN Len(s) ELSE x
        a == Clamp(start)
        b == Clamp(end)
    IN  IF a <= b THEN SubSeq(s, a + 1, b) ELSE SubSeq(s, b + 1, a)

\* mutant: the last occurrence is taken
IndexOf_Last(s, ch) ==
    IF \E i \in 1..Len(s) : s[i] = ch
    THEN (CHOOSE i \in 1..Len(s) : s[i] = ch /\ \A j \in (i + 1)..Len(s) : s[j] # ch) - 1
    ELSE -1

\* s.indexOf(ch): the 0-based position of the first ch, -1 when there is none
IndexOf(s, ch) ==
    IF \E i \in 1..Len(s) : s[i] = ch
    THEN (CHOOSE i \in 1..Len(s) : s[i] = ch /\ \A j \in 1..(i - 1) : s[j] # ch) - 1
    ELSE -1

\* whether pat occurs in s: RegExp.test for a pattern without metacharacters
Contains(s, pat) ==
    \E i \in 1..(Len(s) - Len(pat) + 1) : SubSeq(s, i, i + Len(pat) - 1) = pat

WhiteSpace == {" ", "\n", "\t"}

\* s.trim()
Trim(s) ==
    IF \A i \in 1..Len(s) : s[i] \in WhiteSpace
    THEN <<>>
    ELSE LET first == CHOOSE i \in 1..Len(s) :
                          s[i] \notin WhiteSpace /\ \A j \in 1..(i - 1) : s[j] \in WhiteSpace
             last  == CHOOSE i \in 1..Len(s) :
                          s[i] \notin WhiteSpace /\ \A j \in (i + 1)..Len(s) : s[j] \in WhiteSpace
         IN  SubSeq(s, first, last)

\* parts.join(sep)
RECURSIVE Join(_, _)
Join(parts, sep) ==
    IF parts = <<>> THEN <<>>
    ELSE IF Len(parts) = 1 THEN parts[1]
    ELSE parts[1] \o sep \o Join(Tail(parts), sep)

(***************************************************************************)
(* The vault: the notes, their text and their metadata cache.  Paths are   *)
(* flat (no folders), so a link path resolves the same from every note.    *)
(***************************************************************************)
DotMd == <<".", "m", "d">>

NullFile == [path |-> <<>>, extension |-> <<>>]

MdFile(name) == [path |-> name \o DotMd, extension |-> <<"m", "d">>]

sourceFile == MdFile(<<"A">>)

Vault ==
    { MdFile(<<"A">>), MdFile(<<"B">>), MdFile(<<"C">>),
      [path |-> <<"i", ".", "p", "n", "g">>, extension |-> <<"p", "n", "g">>] }

\* this.app.metadataCache.getFirstLinkpathDest(path, sourcePath): the file named
\* path, with or without its .md extension; the note itself for the empty path
GetFirstLinkpathDest(path, sourcePath) ==
    LET named == {f \in Vault : f.path = path \/ f.path = path \o DotMd}
        self  == {f \in Vault : f.path = sourcePath}
    IN  IF path = <<>>
        THEN (IF self = {} THEN NullFile ELSE CHOOSE f \in self : TRUE)
        ELSE IF named = {} THEN NullFile ELSE CHOOSE f \in named : TRUE

\* this.app.vault.cachedRead(file), when it succeeds
FileContent(file) ==
    CASE file.path = <<"B", ".", "m", "d">> ->
             <<"#", " ", "H", "\n", "b", "1", "\n", "#", " ", "G", "\n", "b", "2", " ", "^", "k", "\n">>
      [] file.path = <<"C", ".", "m", "d">> -> <<"c", "1", "\n">>
      [] OTHER -> <<"a">>

\* getFileCache(file) returned null
NoCache == [exists |-> FALSE, headings |-> <<>>, blocks |-> {}]

\* getFileCache(file), as far as extractSubpathContent reads it: the headings
\* (text, level, offsets of the heading line) and the blocks (id, offsets)
FileCache(file) ==
    IF file.path = <<"B", ".", "m", "d">>
    THEN [exists |-> TRUE,
          headings |-> << [heading |-> <<"H">>, level |-> 1, start |-> 0, end |-> 3],
                          [heading |-> <<"G">>, level |-> 1, start |-> 7, end |-> 10] >>,
          blocks |-> { [id |-> <<"k">>, start |-> 11, end |-> 16] }]
    ELSE [exists |-> TRUE, headings |-> <<>>, blocks |-> {}]


(***************************************************************************)
(* Pure helpers of the walk                                                *)
(***************************************************************************)
MAX_DEPTH == 2

\* the longest links + embeds array pair the metadata cache hands out for one note
MaxLinksPerNote == 2

\* parseLinkReference's subpath: null (no string: its element is no character)
NoSubpath == <<"null">>

\* parseLinkReference(link): split at the first '#'
parseLinkReference(link) ==
    LET anchorPos == IndexOf(link, "#")
    IN  IF anchorPos < 0
        THEN [path |-> link, subpath |-> NoSubpath]
        ELSE [path |-> Substring(link, 0, anchorPos),
              subpath |-> Substring(link, anchorPos + 1, Len(link))]

\* `[${linkCache.displayText}](${linkCache.link})`; a missing displayText
\* renders as "undefined"
TextToCheck(linkCache) ==
    <<"[">>
    \o (IF linkCache.hasDisplayText THEN linkCache.displayText
        ELSE <<"u", "n", "d", "e", "f", "i", "n", "e", "d">>)
    \o <<"]", "(">> \o linkCache.link \o <<")">>

\* mutant: the prompt's patterns are left out
shouldExcludeLink_GlobalOnly(globalPatterns, linkCache, additionalPatterns) ==
    \E i \in 1..Len(globalPatterns) : Contains(TextToCheck(linkCache), globalPatterns[i])

\* shouldExcludeLink(linkCache, additionalPatterns) with this.excludePatterns = globalPatterns
shouldExcludeLink(globalPatterns, linkCache, additionalPatterns) ==
    LET allPatterns == globalPatterns \o additionalPatterns
    IN  \E i \in 1..Len(allPatterns) : Contains(TextToCheck(linkCache), allPatterns[i])

\* the Map seenLinks, in insertion order: a sequence of entries, one per key
HasKey(map, key) == \E i \in 1..Len(map) : map[i].key = key

IndexOfKey(map, key) == CHOOSE i \in 1..Len(map) : map[i].key = key

GetRef(map, key) == map[IndexOfKey(map, key)]

\* map.set(ref.key, ref): a new key goes last, a known key keeps its place
SetRef(map, ref) ==
    IF HasKey(map, ref.key)
    THEN [map EXCEPT ![IndexOfKey(map, ref.key)] = ref]
    ELSE Append(map, ref)

\* mutant: the delete is lost
DeleteKey_Noop(map, key) == map

\* map.delete(key)
DeleteKey(map, key) ==
    LET keep == {i \in 1..Len(map) : map[i].key # key}
        RECURSIVE Pick(_)
        Pick(i) == IF i > Len(map) THEN <<>>
                   ELSE IF i \in keep THEN <<map[i]>> \o Pick(i + 1)
                   ELSE Pick(i + 1)
    IN  Pick(1)

\* mutant: the subpaths are kept in a list, a repeated one is added again
SetAdd_Bag(set, x) == Append(set, x)

\* Set.add on a Set<string>, which iterates in insertion order
SetAdd(set, x) == IF x \in Range(set) THEN set ELSE Append(set, x)

\* the origin entry
Origin ==
    [key |-> sourceFile.path, hasFullReference |-> TRUE, subpaths |-> <<>>,
     file |-> sourceFile, depth |-> 0]

\* mutant: the unresolved entry takes the depth of the note that holds the link
UnresolvedRef_SameDepth(linkKey, depth) ==
    [key |-> linkKey, hasFullReference |-> FALSE, subpaths |-> <<>>,
     file |-> NullFile, depth |-> depth]

\* the entry of a link whose target was not found
UnresolvedRef(linkKey, depth) ==
    [key |-> linkKey, hasFullReference |-> FALSE, subpaths |-> <<>>,
     file |-> NullFile, depth |-> depth + 1]

\* mutant: the new entry takes the depth of the note that holds the link
NewRef_SameDepth(targetFile, depth) ==
    [key |-> targetFile.path, hasFullReference |-> FALSE, subpaths |-> <<>>,
     file |-> targetFile, depth |-> depth]

\* the entry created for a target file seen for the first time
NewRef(targetFile, depth) ==
    [key |-> targetFile.path, hasFullReference |-> FALSE, subpaths |-> <<>>,
     file |-> targetFile, depth |-> depth + 1]

\* track subpath or full file reference (an empty subpath is falsy)
TrackReference(ref, subpath) ==
    IF subpath = NoSubpath \/ subpath = <<>>
    THEN [ref EXCEPT !.hasFullReference = TRUE]
    ELSE [ref EXCEPT !.subpaths = SetAdd(ref.subpaths, subpath)]

\* mutant: the depth test is off by one
SkipExpansion_OffByOne(ref) == ref.file = NullFile \/ ref.depth > MAX_DEPTH

\* skip if file wasn't found (null) or max depth reached
SkipExpansion(ref) == ref.file = NullFile \/ ref.depth >= MAX_DEPTH

\* mutant: the links are part of allLinks whatever includeLinks says
FirstArray_AlwaysLinks(inclLinks) == "links"

\* the array of the cache the loop over allLinks starts in: links are part of
\* allLinks only when includeLinks is true
FirstArray(inclLinks) == IF inclLinks THEN "links" ELSE "embeds"

\* the linkKey test: a link whose raw text is a key of seenLinks is skipped
SeenLinkKey(map, linkKey) == HasKey(map, linkKey)

(***************************************************************************)
(* The inputs of expandLinkedFiles                                         *)
(***************************************************************************)
Link(link, displayText) ==
    [link |-> link, displayText |-> displayText, hasDisplayText |-> TRUE]

\* the links and embeds the metadata cache can hold for a note
LinkPool ==
    { Link(<<"B">>, <<"B">>),
      Link(<<"B", "#", "H">>, <<"B", " ", ">", " ", "H">>),
      Link(<<"B", ".", "m", "d">>, <<"b">>),
      Link(<<"C">>, <<"C">>),
      Link(<<"Z">>, <<"Z">>),
      Link(<<"A", "#", "H">>, <<"A", " ", ">", " ", "H">>),
      [link |-> <<"i", ".", "p", "n", "g">>, displayText |-> <<>>, hasDisplayText |-> FALSE] }

\* the links and embeds of a vault whose notes point into B.md and C.md by
\* heading and by block id, with anchors that exist and anchors that do not
SnippetLinkPool ==
    { Link(<<"B", "#", "H">>, <<"B", " ", ">", " ", "H">>),
      Link(<<"B", "#", "X">>, <<"B", " ", ">", " ", "X">>),
      Link(<<"B", "#", "^", "z">>, <<"B", " ", ">", " ", "^", "z">>),
      Link(<<"B">>, <<"B">>),
      Link(<<"C", "#", "H">>, <<"C", " ", ">", " ", "H">>),
      Link(<<"Z">>, <<"Z">>) }

\* the patterns: this.excludePatterns, compiled from the settings, and the
\* prompt's own excludePatterns (each pattern a literal text)
PatternConfigs ==
    { [global |-> <<>>, prompt |-> <<>>],
      [global |-> << <<"]", "(", "C", ")">> >>, prompt |-> << <<" ", ">", " ">> >>] }

\* the editor's text
SourceTexts == { <<"t", "\n">> }

\* fileQueue.shift() found the queue empty
Undefined == <<"undefined">>

(***************************************************************************)
(* Assembly                                                                *)
(***************************************************************************)
\* mutant: %20 is left as it is
ReplacePercent20_Keep(s) == s

\* subpath.replace(/%20/g, " ")
RECURSIVE ReplacePercent20(_)
ReplacePercent20(s) ==
    IF s = <<>> THEN <<>>
    ELSE IF Len(s) >= 3 /\ SubSeq(s, 1, 3) = <<"%", "2", "0">>
    THEN <<" ">> \o ReplacePercent20(SubSeq(s, 4, Len(s)))
    ELSE <<s[1]>> \o ReplacePercent20(Tail(s))

\* extractSubpathContent(file, fileContent, subpath), cache = getFileCache(file)
extractSubpathContent(cache, fileContent, subpath) ==
    IF ~cache.exists THEN <<>>
    ELSE IF Len(subpath) >= 1 /\ subpath[1] = "^"
    THEN LET blockId == Substring(subpath, 1, Len(subpath))
             found   == {b \in cache.blocks : b.id = blockId}
         IN  IF found = {} THEN <<>>
             ELSE LET block == CHOOSE b \in found : TRUE
                  IN  Trim(Substring(fileContent, block.start, block.end))
    ELSE LET targetHeading == ReplacePercent20(subpath)
             hs    == cache.headings
             match == {i \in 1..Len(hs) : hs[i].heading = targetHeading}
         IN  IF match = {} THEN <<>>
             ELSE LET headingIndex == CHOOSE i \in match : \A j \in match : i <= j
                      heading == hs[headingIndex]
                      later   == {i \in (headingIndex + 1)..Len(hs) : hs[i].level <= heading.level}
                      end     == IF later = {} THEN Len(fileContent)
                                 ELSE hs[CHOOSE i \in later : \A j \in later : i <= j].start
                  IN  Trim(Substring(fileContent, heading.end, end))

BeginPrefix ==
    <<"=","=","=","=","="," ","B","E","G","I","N"," ","E","N","T","R","Y",":"," ">>

\* `===== BEGIN ENTRY: ${name} =====`
BeginEntry(name) == BeginPrefix \o name \o <<" ","=","=","=","=","=">>

EndEntry ==
    <<"=","=","=","=","="," ","E","N","D"," ","E","N","T","R","Y"," ","=","=","=","=","=","\n">>

EmbeddedHeader ==
    <<"\n","-","-","-","-","-"," ","E","M","B","E","D","D","E","D","/","L","I","N","K","E","D",
      " ","C","O","N","T","E","N","T"," ","-","-","-","-","-","\n">>

\* skip null file entries (unresolved links) and non-markdown files
SkipCollect(link) == link.file = NullFile \/ link.file.extension # <<"m", "d">>

\* the strings pushed on expandedContent for one entry whose file was read
RECURSIVE SubpathBlocks(_, _, _)
SubpathBlocks(link, fileContent, subpaths) ==
    IF subpaths = <<>> THEN <<>>
    ELSE << BeginEntry(link.file.path \o <<"#">> \o Head(subpaths)),
            extractSubpathContent(FileCache(link.file), fileContent, Head(subpaths)),
            EndEntry >>
         \o SubpathBlocks(link, fileContent, Tail(subpaths))

EntryBlocks(link, fileContent) ==
    IF link.hasFullReference
    THEN << BeginEntry(link.file.path), fileContent, EndEntry >>
    ELSE SubpathBlocks(link, fileContent, link.subpaths)

\* mutant: the header is appended even when nothing was pushed
FinalText_AlwaysHeader(text, pushed) ==
    text \o EmbeddedHeader \o Join(pushed, <<"\n">>)

\* the text expandLinkedFiles returns
FinalText(text, pushed) ==
    IF Len(pushed) > 0
    THEN text \o EmbeddedHeader \o Join(pushed, <<"\n">>)
    ELSE text

(***************************************************************************)
(* expandLinkedFiles as a state machine                                    *)
(***************************************************************************)
VARIABLES
    linkPool,         \* the vault: the links and embeds its metadata cache holds
    content,          \* argument: the editor's text
    includeLinks,     \* argument
    excludePatterns,  \* argument: the prompt's patterns
    globalPatterns,   \* this.excludePatterns
    pc,               \* "idle", "loop", "links", "collect", "done", "failed"
    seenLinks,        \* the Map, in insertion order
    fileQueue,        \* the queued entries, each named by its key in seenLinks
    embeddedLink,     \* the entry being expanded (its key), or Undefined
    array,            \* the array of the cache the loop over allLinks is in
    nLinks,           \* the elements of allLinks read so far for this note
    cachedLink,       \* the loop variable over allLinks: the link being processed
    pos,              \* phase 2: the position of the iterator over seenLinks.values()
    expandedContent,  \* phase 2: the strings pushed so far
    result,           \* the returned text
    \* history, written by no line of the code
    expanded,         \* the keys whose links were examined, in order
    enqueued,         \* the keys pushed on fileQueue, in order
    bareRef,          \* paths a followed link named without a subpath
    subRef,           \* paths a followed link named with a subpath
    readLog,          \* the paths handed to cachedRead, in order
    failedReads       \* the paths whose cachedRead rejected

\* the variables of the functions modelled on their own, below
VARIABLES
    docSections,      \* extractSubpathContent: the document, as its sections
    docCached,        \* extractSubpathContent: getFileCache(file) is not null
    docSubpath,       \* extractSubpathContent: argument subpath
    snippet,          \* extractSubpathContent: the returned string
    rawLink,          \* parseLinkReference: argument link
    linkRef,          \* parseLinkReference: the returned {path, subpath}
    fcContent,        \* filterCallouts: argument content
    calloutTypes,     \* filterCallouts: argument calloutTypes, or Undefined
    fcPc,             \* filterCallouts: "idle", "loop", "done"
    fcLines,          \* filterCallouts: lines = content.split("\n")
    fcIndex,          \* filterCallouts: the position of the loop over lines
    skipDepth,        \* filterCallouts: -1 when not skipping, else the depth skipped at
    previousLineBlank, \* filterCallouts
    fcResult,         \* filterCallouts: the array result
    fcReturn,         \* filterCallouts: the returned string
    keptAt            \* history: the positions of the lines pushed on result

\* the variables of content generation (generateContentWithEditor)
VARIABLES
    genEnv,           \* the user: which runs, notes, prompts and texts there can be
    now,              \* Date.now()
    promptContexts,   \* this.promptContexts, the Map in insertion order
    gen               \* the runs of generateContentWithEditor under way

\* the variables of the OpenAI-compatible client (generate)
VARIABLES
    systemPrompt,     \* generate: argument systemPrompt, the prompt's text
    chatContext,      \* the context the last result carried: options.context of the next
    chatMessages,     \* generate: messages, as the last request sent them
    chatRequests,     \* history: the requests made
    exchanged         \* history: the user messages and the replies, as they were

\* the variables of the OpenAI-compatible client (checkConnection, listModels)
VARIABLES
    apiPrefix,        \* this.connectionConfig.apiPrefix, or Undefined
    probePc,          \* executeModelsRequest: "idle", "saved", "none", "api", "done"
    probeMethod,      \* the method under way: "checkConnection" or "listModels"
    probed,           \* history: the prefixes of the URLs requested, each with its outcome
    settingsSaved,    \* history: the calls of saveSettings during the method
    probeReturn,      \* what the method returned
    prefixBefore      \* history: apiPrefix when the method was called

\* the variables of the placeholder (ContentGenerator.generateContentWithEditor)
VARIABLES
    edPc,             \* "idle", "generating", "done"
    shownFile,        \* ctx.file: the note the editor shows
    docs,             \* the lines of each note; the editor reads and writes docs[shownFile]
    startLine,        \* placeholderInfo.startLine (and endLine), counted from 0
    currentFrame,     \* the frame counter of the interval's callback
    animating,        \* the interval is set and not cleared
    generated,        \* the content getGeneratedContent returned, once it has
    userEdits         \* history: the lines the user inserted or deleted meanwhile

walkVars ==
    << linkPool, content, includeLinks, excludePatterns, globalPatterns, pc, seenLinks,
       fileQueue, embeddedLink, array, nLinks, cachedLink, pos, expandedContent,
       result, expanded, enqueued, bareRef, subRef, readLog, failedReads >>

extractVars == << docSections, docCached, docSubpath, snippet >>

parseVars == << rawLink, linkRef >>

filterVars ==
    << fcContent, calloutTypes, fcPc, fcLines, fcIndex, skipDepth, previousLineBlank,
       fcResult, fcReturn, keptAt >>

genVars == << genEnv, now, promptContexts, gen >>

chatVars == << systemPrompt, chatContext, chatMessages, chatRequests, exchanged >>

probeVars ==
    << apiPrefix, probePc, probeMethod, probed, settingsSaved, probeReturn, prefixBefore >>

editorVars ==
    << edPc, shownFile, docs, startLine, currentFrame, animating, generated, userEdits >>

clientVars == << chatVars, probeVars, editorVars >>

pureVars == << extractVars, parseVars, filterVars, genVars, clientVars >>

vars == << walkVars, pureVars >>

args == << content, includeLinks, excludePatterns, globalPatterns >>

history == << expanded, enqueued, bareRef, subRef, readLog, failedReads >>

NoResult == <<"none">>

\* extractSubpathContent is not being called
ExtractIdle ==
    /\ docSections = <<>>
    /\ docCached = FALSE
    /\ docSubpath = <<>>
    /\ snippet = NoResult

\* parseLinkReference has not returned
NoRef == [path |-> NoResult, subpath |-> NoResult]

\* parseLinkReference is not being called
ParseIdle ==
    /\ rawLink = <<>>
    /\ linkRef = NoRef

\* filterCallouts is not being called
FilterIdle ==
    /\ fcContent = <<>>
    /\ calloutTypes = <<>>
    /\ fcPc = "idle"
    /\ fcLines = <<>>
    /\ fcIndex = 1
    /\ skipDepth = -1
    /\ previousLineBlank = FALSE
    /\ fcResult = <<>>
    /\ fcReturn = NoResult
    /\ keptAt = {}

\* no content is being generated
GenIdle ==
    /\ genEnv = "none"
    /\ now = 0
    /\ promptContexts = {}
    /\ gen = <<>>

\* no conversation is held
ChatIdle ==
    /\ systemPrompt = <<>>
    /\ chatContext = Undefined
    /\ chatMessages = <<>>
    /\ chatRequests = 0
    /\ exchanged = <<>>

\* no connection is being checked
ProbeIdle ==
    /\ apiPrefix = Undefined
    /\ probePc = "idle"
    /\ probeMethod = "none"
    /\ probed = <<>>
    /\ settingsSaved = 0
    /\ probeReturn = NoResult
    /\ prefixBefore = Undefined

\* no editor is at hand
EditorIdle ==
    /\ edPc = "idle"
    /\ shownFile = "none"
    /\ docs = <<>>
    /\ startLine = 0
    /\ currentFrame = 0
    /\ animating = FALSE
    /\ generated = "none"
    /\ userEdits = 0

ClientIdle == ChatIdle /\ ProbeIdle /\ EditorIdle

PureIdle == ExtractIdle /\ ParseIdle /\ FilterIdle /\ GenIdle /\ ClientIdle

\* outside the loop over allLinks there is no cachedLink
NoLink == [link |-> <<>>, displayText |-> <<>>, hasDisplayText |-> FALSE]

Init ==
    /\ linkPool = LinkPool
    /\ content \in SourceTexts
    /\ includeLinks \in BOOLEAN
    /\ \E cfg \in PatternConfigs :
           /\ excludePatterns = cfg.prompt
           /\ globalPatterns = cfg.global
    /\ pc = "idle"
    /\ seenLinks = <<>>
    /\ fileQueue = <<>>
    /\ embeddedLink = Undefined
    /\ array = "links"
    /\ nLinks = 0
    /\ cachedLink = NoLink
    /\ pos = 1
    /\ expandedContent = <<>>
    /\ result = NoResult
    /\ expanded = <<>>
    /\ enqueued = <<>>
    /\ bareRef = {}
    /\ subRef = {}
    /\ readLog = <<>>
    /\ failedReads = {}
    /\ PureIdle

\* embeddedLink = fileQueue.shift()
Shift ==
    /\ embeddedLink' = IF fileQueue = <<>> THEN Undefined ELSE Head(fileQueue)
    /\ fileQueue' = IF fileQueue = <<>> THEN <<>> ELSE Tail(fileQueue)

\* the source has no metadata cache: the text is returned as it came
ExpandNoCache ==
    /\ pc = "idle"
    /\ pc' = "done"
    /\ result' = content
    /\ UNCHANGED << pureVars, linkPool, args, seenLinks, fileQueue, embeddedLink, array, nLinks,
                    cachedLink, pos, expandedContent, history >>

\* the origin is put in seenLinks, queued and taken off the queue again
ExpandStart ==
    /\ pc = "idle"
    /\ pc' = "loop"
    /\ seenLinks' = SetRef(<<>>, Origin)
    /\ embeddedLink' = Origin.key
    /\ fileQueue' = <<>>
    /\ enqueued' = Append(enqueued, Origin.key)
    /\ UNCHANGED << pureVars, linkPool, args, array, nLinks, cachedLink, pos, expandedContent, result,
                    expanded, bareRef, subRef, readLog, failedReads >>

\* top of the while loop: an unresolved or depth-capped entry is passed over
LoopSkip ==
    /\ pc = "loop"
    /\ embeddedLink # Undefined
    /\ SkipExpansion(GetRef(seenLinks, embeddedLink))
    /\ Shift
    /\ UNCHANGED << pureVars, linkPool, args, pc, seenLinks, array, nLinks, cachedLink, pos,
                    expandedContent, result, history >>

\* getFileCache(embeddedLink.file) is null: nothing to examine
LoopNoCache ==
    /\ pc = "loop"
    /\ embeddedLink # Undefined
    /\ ~SkipExpansion(GetRef(seenLinks, embeddedLink))
    /\ embeddedLink # Origin.key      \* the source's cache was there at the start
    /\ Shift
    /\ UNCHANGED << pureVars, linkPool, args, pc, seenLinks, array, nLinks, cachedLink, pos,
                    expandedContent, result, history >>

\* the entry's links are about to be examined
LoopOpen ==
    /\ pc = "loop"
    /\ embeddedLink # Undefined
    /\ ~SkipExpansion(GetRef(seenLinks, embeddedLink))
    /\ pc' = "links"
    /\ array' = FirstArray(includeLinks)
    /\ nLinks' = 0
    /\ expanded' = Append(expanded, embeddedLink)
    /\ UNCHANGED << pureVars, linkPool, args, seenLinks, fileQueue, embeddedLink, cachedLink, pos,
                    expandedContent, result, enqueued, bareRef, subRef, readLog,
                    failedReads >>

\* mutant: entries are keyed by the raw link text, not by the resolved path
LinkStep_KeyedByLinkText(map, from, link, global, additional) ==
    LET linkKey    == link.link
        parsed     == parseLinkReference(link.link)
        targetFile == GetFirstLinkpathDest(parsed.path, from.file.path)
        ref        == [NewRef(targetFile, from.depth) EXCEPT !.key = linkKey]
    IN  IF shouldExcludeLink(global, link, additional)
        THEN [seenLinks |-> map, push |-> <<>>]
        ELSE IF SeenLinkKey(map, linkKey)
        THEN [seenLinks |-> map, push |-> <<>>]
        ELSE IF targetFile = NullFile
        THEN [seenLinks |-> SetRef(map, UnresolvedRef(linkKey, from.depth)), push |-> <<>>]
        ELSE [seenLinks |-> SetRef(map, TrackReference(ref, parsed.subpath)),
              push |-> <<ref.key>>]

\* mutant: the target is queued whether or not it was seen before
LinkStep_AlwaysPush(map, from, link, global, additional) ==
    LET linkKey    == link.link
        parsed     == parseLinkReference(link.link)
        targetFile == GetFirstLinkpathDest(parsed.path, from.file.path)
        isNew      == ~HasKey(map, targetFile.path)
        ref        == IF isNew THEN NewRef(targetFile, from.depth)
                      ELSE GetRef(map, targetFile.path)
    IN  IF shouldExcludeLink(global, link, additional)
        THEN [seenLinks |-> map, push |-> <<>>]
        ELSE IF SeenLinkKey(map, linkKey)
        THEN [seenLinks |-> map, push |-> <<>>]
        ELSE IF targetFile = NullFile
        THEN [seenLinks |-> SetRef(map, UnresolvedRef(linkKey, from.depth)), push |-> <<>>]
        ELSE [seenLinks |-> SetRef(map, TrackReference(ref, parsed.subpath)),
              push |-> <<ref.key>>]

\* the body of the loop over allLinks for one link of the entry `from`:
\* the new seenLinks and the keys to push on fileQueue
LinkStep(map, from, link, global, additional) ==
    LET linkKey    == link.link
        parsed     == parseLinkReference(link.link)
        targetFile == GetFirstLinkpathDest(parsed.path, from.file.path)
        isNew      == ~HasKey(map, targetFile.path)
        ref        == IF isNew THEN NewRef(targetFile, from.depth)
                      ELSE GetRef(map, targetFile.path)
    IN  IF shouldExcludeLink(global, link, additional)
        THEN [seenLinks |-> map, push |-> <<>>]
        ELSE IF SeenLinkKey(map, linkKey)
        THEN [seenLinks |-> map, push |-> <<>>]
        ELSE IF targetFile = NullFile
        THEN [seenLinks |-> SetRef(map, UnresolvedRef(linkKey, from.depth)), push |-> <<>>]
        ELSE [seenLinks |-> SetRef(map, TrackReference(ref, parsed.subpath)),
              push |-> IF isNew THEN <<ref.key>> ELSE <<>>]

\* history only: the link's rendering holds one of the patterns in force
MatchesAPattern(link) ==
    \E p \in Range(globalPatterns) \cup Range(excludePatterns) :
        Contains(TextToCheck(link), p)

\* one pass of the loop over allLinks: the cache hands out the next link
ProcessLink(nextLink) ==
    /\ pc = "links"
    /\ nLinks < MaxLinksPerNote
    /\ LET from   == GetRef(seenLinks, embeddedLink)
           step   == LinkStep(seenLinks, from, nextLink, globalPatterns, excludePatterns)
           parsed == parseLinkReference(nextLink.link)
           target == GetFirstLinkpathDest(parsed.path, from.file.path)
           follow == ~MatchesAPattern(nextLink) /\ target # NullFile
       IN  /\ seenLinks' = step.seenLinks
           /\ fileQueue' = fileQueue \o step.push
           /\ enqueued' = enqueued \o step.push
           /\ bareRef' = IF follow /\ parsed.subpath = NoSubpath
                         THEN bareRef \cup {target.path} ELSE bareRef
           /\ subRef' = IF follow /\ parsed.subpath # NoSubpath
                        THEN subRef \cup {target.path} ELSE subRef
    /\ nLinks' = nLinks + 1
    /\ cachedLink' = nextLink
    /\ UNCHANGED << pureVars, linkPool, args, pc, embeddedLink, array, pos, expandedContent, result,
                    expanded, readLog, failedReads >>

\* fileCache.links is exhausted: the loop goes on with fileCache.embeds
LinksEnd ==
    /\ pc = "links"
    /\ array = "links"
    /\ array' = "embeds"
    /\ UNCHANGED << pureVars, linkPool, args, pc, seenLinks, fileQueue, embeddedLink, nLinks, cachedLink,
                    pos, expandedContent, result, history >>

\* allLinks is exhausted: the next entry is taken off the queue
EmbedsEnd ==
    /\ pc = "links"
    /\ array = "embeds"
    /\ pc' = "loop"
    /\ cachedLink' = NoLink
    /\ Shift
    /\ UNCHANGED << pureVars, linkPool, args, seenLinks, array, nLinks, pos, expandedContent, result,
                    history >>

\* the queue is empty: phase 2 starts with the source removed from seenLinks
LoopExit ==
    /\ pc = "loop"
    /\ embeddedLink = Undefined
    /\ pc' = "collect"
    /\ seenLinks' = DeleteKey(seenLinks, sourceFile.path)
    /\ pos' = 1
    /\ expandedContent' = <<>>
    /\ UNCHANGED << pureVars, linkPool, args, fileQueue, embeddedLink, array, nLinks, cachedLink, result,
                    history >>

\* phase 2: an unresolved link or a non-markdown file yields nothing
CollectSkip ==
    /\ pc = "collect"
    /\ pos <= Len(seenLinks)
    /\ SkipCollect(seenLinks[pos])
    /\ pos' = pos + 1
    /\ UNCHANGED << pureVars, linkPool, args, pc, seenLinks, fileQueue, embeddedLink, array, nLinks,
                    cachedLink, expandedContent, result, history >>

\* phase 2: the file is read and its block or snippets are pushed
CollectRead ==
    /\ pc = "collect"
    /\ pos <= Len(seenLinks)
    /\ ~SkipCollect(seenLinks[pos])
    /\ readLog' = Append(readLog, seenLinks[pos].file.path)
    /\ expandedContent' =
           expandedContent \o EntryBlocks(seenLinks[pos], FileContent(seenLinks[pos].file))
    /\ pos' = pos + 1
    /\ UNCHANGED << pureVars, linkPool, args, pc, seenLinks, fileQueue, embeddedLink, array, nLinks,
                    cachedLink, result, expanded, enqueued, bareRef, subRef,
                    failedReads >>

\* phase 2: cachedRead rejects; nothing catches it, in expandLinkedFiles or in
\* its caller, so the call ends with the rejection
CollectReadFails ==
    /\ pc = "collect"
    /\ pos <= Len(seenLinks)
    /\ ~SkipCollect(seenLinks[pos])
    /\ readLog' = Append(readLog, seenLinks[pos].file.path)
    /\ failedReads' = failedReads \cup {seenLinks[pos].file.path}
    /\ pc' = "failed"
    /\ UNCHANGED << pureVars, linkPool, args, seenLinks, fileQueue, embeddedLink, array, nLinks,
                    cachedLink, pos, expandedContent, result, expanded, enqueued,
                    bareRef, subRef >>

\* the text is returned
Return ==
    /\ pc = "collect"
    /\ pos > Len(seenLinks)
    /\ pc' = "done"
    /\ result' = FinalText(content, expandedContent)
    /\ UNCHANGED << pureVars, linkPool, args, seenLinks, fileQueue, embeddedLink, array, nLinks,
                    cachedLink, pos, expandedContent, history >>

Next ==
    \/ ExpandNoCache
    \/ ExpandStart
    \/ LoopSkip
    \/ LoopNoCache
    \/ LoopOpen
    \/ \E nextLink \in linkPool : ProcessLink(nextLink)
    \/ LinksEnd
    \/ EmbedsEnd
    \/ LoopExit
    \/ CollectSkip
    \/ CollectRead
    \/ CollectReadFails
    \/ Return

Spec == Init /\ [][Next]_vars

\* the same call in a vault whose links name headings and blocks
SnippetInit ==
    /\ linkPool = SnippetLinkPool
    /\ content \in SourceTexts
    /\ includeLinks \in BOOLEAN
    /\ excludePatterns = <<>>
    /\ globalPatterns = <<>>
    /\ pc = "idle"
    /\ seenLinks = <<>>
    /\ fileQueue = <<>>
    /\ embeddedLink = Undefined
    /\ array = "links"
    /\ nLinks = 0
    /\ cachedLink = NoLink
    /\ pos = 1
    /\ expandedContent = <<>>
    /\ result = NoResult
    /\ expanded = <<>>
    /\ enqueued = <<>>
    /\ bareRef = {}
    /\ subRef = {}
    /\ readLog = <<>>
    /\ failedReads = {}
    /\ PureIdle

SnippetSpec == SnippetInit /\ [][Next]_vars

\* expandLinkedFiles is not being called
WalkIdle ==
    /\ linkPool = {}
    /\ content = <<>>
    /\ includeLinks = FALSE
    /\ excludePatterns = <<>>
    /\ globalPatterns = <<>>
    /\ pc = "idle"
    /\ seenLinks = <<>>
    /\ fileQueue = <<>>
    /\ embeddedLink = Undefined
    /\ array = "links"
    /\ nLinks = 0
    /\ cachedLink = NoLink
    /\ pos = 1
    /\ expandedContent = <<>>
    /\ result = NoResult
    /\ expanded = <<>>
    /\ enqueued = <<>>
    /\ bareRef = {}
    /\ subRef = {}
    /\ readLog = <<>>
    /\ failedReads = {}

(***************************************************************************)
(* extractSubpathContent on its own: a document of up to MaxHeadings       *)
(* sections, each a heading line and a paragraph, the last paragraph       *)
(* carrying the block id ^k; the metadata cache holds the headings and the *)
(* block with their offsets in the text.                                   *)
(***************************************************************************)
MaxHeadings == 3

HeadingTexts == { <<"H">>, <<"G">>, <<"H", " ", "G">> }

HeadingLevels == 1..3

\* the subpaths asked for: headings (one with %20, one in the wrong case,
\* one that names nothing) and block ids (one that is a heading's text)
Subpaths ==
    { <<"H">>, <<"G">>, <<"H", "%", "2", "0", "G">>, <<"h">>, <<"X">>,
      <<"^", "k">>, <<"^", "z">>, <<"^", "H">> }

Digit(n) == CASE n = 1 -> "1" [] n = 2 -> "2" [] n = 3 -> "3" [] n = 4 -> "4" [] OTHER -> "9"

Hashes(level) == [i \in 1..level |-> "#"]

\* the heading line and the paragraph of section n, without the line ends
HeadingLine(sections, n) == Hashes(sections[n].level) \o <<" ">> \o sections[n].heading

Paragraph(sections, n) ==
    <<"b", Digit(n)>> \o (IF n = Len(sections) THEN <<" ", "^", "k">> ELSE <<>>)

\* the text of the sections n, n+1, ..., last
RECURSIVE DocTextFrom(_, _)
DocTextFrom(sections, n) ==
    IF n > Len(sections) THEN <<>>
    ELSE HeadingLine(sections, n) \o <<"\n">> \o Paragraph(sections, n) \o <<"\n">>
         \o DocTextFrom(sections, n + 1)

\* vault.cachedRead(file)
DocText(sections) == DocTextFrom(sections, 1)

\* the offset at which section n starts
SectionStart(sections, n) == Len(DocText(sections)) - Len(DocTextFrom(sections, n))

\* metadataCache.getFileCache(file)
DocCache(sections) ==
    [exists |-> TRUE,
     headings |-> [n \in 1..Len(sections) |->
                      [heading |-> sections[n].heading,
                       level   |-> sections[n].level,
                       start   |-> SectionStart(sections, n),
                       end     |-> SectionStart(sections, n) + Len(HeadingLine(sections, n))]],
     blocks |-> IF sections = <<>> THEN {}
                ELSE LET n == Len(sections)
                         from == SectionStart(sections, n) + Len(HeadingLine(sections, n)) + 1
                     IN  { [id |-> <<"k">>, start |-> from,
                            end |-> from + Len(Paragraph(sections, n))] }]

ExtractInit ==
    /\ WalkIdle
    /\ ClientIdle
    /\ ParseIdle
    /\ FilterIdle
    /\ GenIdle
    /\ \E n \in 1..MaxHeadings :
           docSections \in [1..n -> [heading : HeadingTexts, level : HeadingLevels]]
    /\ docCached \in BOOLEAN
    /\ docSubpath \in Subpaths
    /\ snippet = NoResult

\* the call of extractSubpathContent(file, fileContent, subpath)
ExtractSubpath ==
    /\ snippet = NoResult
    /\ docSections # <<>>
    /\ snippet' = extractSubpathContent(
                      IF docCached THEN DocCache(docSections) ELSE NoCache,
                      DocText(docSections), docSubpath)
    /\ UNCHANGED << walkVars, clientVars, genVars, parseVars, filterVars, docSections, docCached, docSubpath >>

ExtractNext == ExtractSubpath

ExtractSpec == ExtractInit /\ [][ExtractNext]_vars

(***************************************************************************)
(* parseLinkReference on its own: every link text of up to MaxLinkLen      *)
(* characters over a letter, a dot and '#'.                                *)
(***************************************************************************)
MaxLinkLen == 4

LinkChars == {"a", ".", "#"}

ParseInit ==
    /\ WalkIdle
    /\ ClientIdle
    /\ ExtractIdle
    /\ FilterIdle
    /\ GenIdle
    /\ \E n \in 0..MaxLinkLen : rawLink \in [1..n -> LinkChars]
    /\ linkRef = NoRef

\* the call of parseLinkReference(link)
ParseLink ==
    /\ linkRef = NoRef
    /\ linkRef' = parseLinkReference(rawLink)
    /\ UNCHANGED << walkVars, clientVars, genVars, extractVars, filterVars, rawLink >>

ParseNext == ParseLink

ParseSpec == ParseInit /\ [][ParseNext]_vars

(***************************************************************************)
(* filterCallouts                                                          *)
(***************************************************************************)
\* line.trimStart()
RECURSIVE SkipSpace(_, _)
SkipSpace(s, i) ==
    IF i <= Len(s) /\ s[i] \in WhiteSpace THEN SkipSpace(s, i + 1) ELSE i

TrimStart(s) == SubSeq(s, SkipSpace(s, 1), Len(s))

\* content.split("\n")
RECURSIVE Split(_)
Split(s) ==
    IF "\n" \notin Range(s) THEN <<s>>
    ELSE LET i == IndexOf(s, "\n")
         IN  <<SubSeq(s, 1, i)>> \o Split(SubSeq(s, i + 2, Len(s)))

\* the match of (?:>\s*)* from position i on: the position after it
RECURSIVE QuoteRunEnd(_, _)
QuoteRunEnd(s, i) ==
    IF i <= Len(s) /\ s[i] = ">" THEN QuoteRunEnd(s, SkipSpace(s, i + 1)) ELSE i

\* mutant: only the markers that follow each other directly are counted
QuoteDepth_Adjacent(line) ==
    LET trimmed == TrimStart(line)
    IN  Cardinality({i \in 1..Len(trimmed) : \A k \in 1..i : trimmed[k] = ">"})

\* (trimmed.match(/^(?:>\s*)*/)?.[0].match(/>/g) || []).length
QuoteDepth(line) ==
    LET trimmed == TrimStart(line)
    IN  Cardinality({i \in 1..(QuoteRunEnd(trimmed, 1) - 1) : trimmed[i] = ">"})

\* depth === 0 && line.trim().length === 0
IsBlank(line) == QuoteDepth(line) = 0 /\ Len(Trim(line)) = 0

\* [\w-]
TypeChars ==
    { "a", "b", "c", "d", "e", "f", "g", "h", "i", "j", "k", "l", "m", "n", "o", "p", "q",
      "r", "s", "t", "u", "v", "w", "x", "y", "z",
      "A", "B", "C", "D", "E", "F", "G", "H", "I", "J", "K", "L", "M", "N", "O", "P", "Q",
      "R", "S", "T", "U", "V", "W", "X", "Y", "Z",
      "0", "1", "2", "3", "4", "5", "6", "7", "8", "9", "_", "-" }

RECURSIVE TypeRunEnd(_, _)
TypeRunEnd(s, i) ==
    IF i <= Len(s) /\ s[i] \in TypeChars THEN TypeRunEnd(s, i + 1) ELSE i

\* line.match(...) found nothing
NoMatch == <<"null">>

\* line.match(/^((?:>\s*)+)\[!([\w-]+)\]/): the type (group 2), or NoMatch
CalloutMatch(line) ==
    LET open  == QuoteRunEnd(line, 1)
        close == TypeRunEnd(line, open + 2)
    IN  IF /\ open > 1
           /\ Len(line) >= open + 1
           /\ line[open] = "[" /\ line[open + 1] = "!"
           /\ close > open + 2
           /\ close <= Len(line) /\ line[close] = "]"
        THEN SubSeq(line, open + 2, close - 1)
        ELSE NoMatch

\* mutant: the case is left as it is
ToLowerCase_Keep(s) == s

\* s.toLowerCase()
ToLowerCase(s) ==
    LET upper == <<"A", "B", "C", "D", "E", "F", "G", "H", "I", "J", "K", "L", "M",
                   "N", "O", "P", "Q", "R", "S", "T", "U", "V", "W", "X", "Y", "Z">>
        lower == <<"a", "b", "c", "d", "e", "f", "g", "h", "i", "j", "k", "l", "m",
                   "n", "o", "p", "q", "r", "s", "t", "u", "v", "w", "x", "y", "z">>
    IN  [i \in 1..Len(s) |->
            IF \E k \in 1..26 : upper[k] = s[i]
            THEN lower[CHOOSE k \in 1..26 : upper[k] = s[i]]
            ELSE s[i]]

\* mutant: a header of any type is excluded
TypeExcluded_Any(types, match) == Len(types) > 0

\* types.some((t) => t.toLowerCase() === calloutType), calloutType lower-cased
TypeExcluded(types, match) ==
    \E i \in 1..Len(types) : ToLowerCase(types[i]) = ToLowerCase(match)

\* !calloutTypes || calloutTypes.length === 0
NoTypes(types) == types = Undefined \/ Len(types) = 0

\* mutant: the exclusion never ends
InsideSkipped_Always(skipping, depth, isHeader) == TRUE

\* mutant: a line of the same depth ends the exclusion
InsideSkipped_DeeperOnly(skipping, depth, isHeader) == depth > skipping

\* mutant: a deeper line ends the exclusion
InsideSkipped_SameDepthOnly(skipping, depth, isHeader) == depth = skipping /\ ~isHeader

\* skip deeper or same-depth non-header content
InsideSkipped(skipping, depth, isHeader) ==
    depth > skipping \/ (depth = skipping /\ ~isHeader)

\* mutant: a header of the same depth always ends the exclusion
UnseparatedSibling_Never(skipping, depth, isHeader, prevBlank) == FALSE

\* mutant: any line that follows no blank line continues the exclusion
UnseparatedSibling_AnyDepth(skipping, depth, isHeader, prevBlank) == ~prevBlank

\* same-depth callout without blank line separator
UnseparatedSibling(skipping, depth, isHeader, prevBlank) ==
    depth = skipping /\ isHeader /\ ~prevBlank

\* the body of the loop over lines: the loop's variables after one line
CalloutStep(st, line, types) ==
    LET depth        == QuoteDepth(line)
        isBlank      == IsBlank(line)
        calloutMatch == CalloutMatch(line)
        skipped      == [st EXCEPT !.previousLineBlank = isBlank]
    IN  IF st.skipDepth >= 0 /\ InsideSkipped(st.skipDepth, depth, calloutMatch # NoMatch)
        THEN skipped
        ELSE IF st.skipDepth >= 0
                /\ UnseparatedSibling(st.skipDepth, depth, calloutMatch # NoMatch,
                                      st.previousLineBlank)
        THEN skipped
        ELSE IF calloutMatch # NoMatch /\ TypeExcluded(types, calloutMatch)
        THEN [skipDepth |-> depth, previousLineBlank |-> isBlank, result |-> st.result]
        ELSE [skipDepth |-> -1, previousLineBlank |-> isBlank,
              result |-> Append(st.result, line)]

\* the loop over lines, from line i on
RECURSIVE CalloutLoop(_, _, _, _)
CalloutLoop(st, lines, i, types) ==
    IF i > Len(lines) THEN st
    ELSE CalloutLoop(CalloutStep(st, lines[i], types), lines, i + 1, types)

\* filterCallouts(content, calloutTypes)
filterCallouts(text, types) ==
    IF NoTypes(types) THEN text
    ELSE Join(CalloutLoop([skipDepth |-> -1, previousLineBlank |-> FALSE, result |-> <<>>],
                          Split(text), 1, types).result,
              <<"\n">>)

(***************************************************************************)
(* filterCallouts on its own: every text of up to MaxLines lines, each a   *)
(* callout header, a quoted line, a plain line or a blank line.  For each  *)
(* line the pool states what it is, apart from how the code reads it: its  *)
(* quote depth, its kind ("excluded": a header of a type to exclude,       *)
(* "other": a header of another type, "text", "blank") and the same line   *)
(* with its quote markers written the other way (">>" for "> >").          *)
(***************************************************************************)
MaxLines == 4

CalloutLines ==
    { [text |-> <<">", " ", "[", "!", "a", "-", "i", "]", " ", "x">>,
       depth |-> 1, kind |-> "excluded",
       respaced |-> <<">", "[", "!", "a", "-", "i", "]", " ", "x">>],
      [text |-> <<">", " ", "[", "!", "n", "]">>,
       depth |-> 1, kind |-> "other",
       respaced |-> <<">", "[", "!", "n", "]">>],
      [text |-> <<">", " ", "t">>,
       depth |-> 1, kind |-> "text",
       respaced |-> <<">", "t">>],
      [text |-> <<">", ">", " ", "[", "!", "A", "-", "I", "]">>,
       depth |-> 2, kind |-> "excluded",
       respaced |-> <<">", " ", ">", " ", "[", "!", "A", "-", "I", "]">>],
      [text |-> <<">", " ", ">", " ", "[", "!", "n", "]">>,
       depth |-> 2, kind |-> "other",
       respaced |-> <<">", ">", " ", "[", "!", "n", "]">>],
      [text |-> <<">", " ", ">", " ", "t">>,
       depth |-> 2, kind |-> "text",
       respaced |-> <<">", ">", " ", "t">>],
      [text |-> <<>>, depth |-> 0, kind |-> "blank", respaced |-> <<>>],
      [text |-> <<"t">>, depth |-> 0, kind |-> "text", respaced |-> <<"t">>] }

\* the calloutTypes argument: absent, empty, or two types of which the second
\* is the type of the "excluded" headers, in another case
TypeConfigs == { Undefined, <<>>, << <<"q">>, <<"A", "-", "i">> >> }

FilterInit ==
    /\ WalkIdle
    /\ ClientIdle
    /\ ExtractIdle
    /\ ParseIdle
    /\ GenIdle
    /\ \E n \in 1..MaxLines : \E doc \in [1..n -> CalloutLines] :
           fcContent = Join([i \in 1..n |-> doc[i].text], <<"\n">>)
    /\ calloutTypes \in TypeConfigs
    /\ fcPc = "start"
    /\ fcLines = <<>>
    /\ fcIndex = 1
    /\ skipDepth = -1
    /\ previousLineBlank = FALSE
    /\ fcResult = <<>>
    /\ fcReturn = NoResult
    /\ keptAt = {}

\* mutant: the content is returned trimmed
FilterNoTypes_Trimmed ==
    /\ fcPc = "start"
    /\ NoTypes(calloutTypes)
    /\ fcReturn' = Trim(fcContent)
    /\ fcPc' = "done"
    /\ UNCHANGED << walkVars, clientVars, genVars, extractVars, parseVars, fcContent, calloutTypes, fcLines,
                    fcIndex, skipDepth, previousLineBlank, fcResult, keptAt >>

\* no types to exclude: the content is returned as it came
FilterNoTypes ==
    /\ fcPc = "start"
    /\ NoTypes(calloutTypes)
    /\ fcReturn' = fcContent
    /\ fcPc' = "done"
    /\ UNCHANGED << walkVars, clientVars, genVars, extractVars, parseVars, fcContent, calloutTypes, fcLines,
                    fcIndex, skipDepth, previousLineBlank, fcResult, keptAt >>

\* mutant: the loop starts from the skip state it finds
FilterSplit_KeepsState ==
    /\ fcPc = "start"
    /\ ~NoTypes(calloutTypes)
    /\ fcLines' = Split(fcContent)
    /\ fcResult' = <<>>
    /\ fcIndex' = 1
    /\ fcPc' = "loop"
    /\ UNCHANGED << walkVars, clientVars, genVars, extractVars, parseVars, fcContent, calloutTypes, fcReturn,
                    keptAt, skipDepth, previousLineBlank >>

\* the content is split into lines and the loop's variables are set
FilterSplit ==
    /\ fcPc = "start"
    /\ ~NoTypes(calloutTypes)
    /\ fcLines' = Split(fcContent)
    /\ fcResult' = <<>>
    /\ skipDepth' = -1
    /\ previousLineBlank' = FALSE
    /\ fcIndex' = 1
    /\ fcPc' = "loop"
    /\ UNCHANGED << walkVars, clientVars, genVars, extractVars, parseVars, fcContent, calloutTypes, fcReturn,
                    keptAt >>

\* one pass of the loop over lines
FilterLine ==
    /\ fcPc = "loop"
    /\ fcIndex <= Len(fcLines)
    /\ LET st == CalloutStep([skipDepth |-> skipDepth,
                              previousLineBlank |-> previousLineBlank,
                              result |-> fcResult],
                             fcLines[fcIndex], calloutTypes)
       IN  /\ skipDepth' = st.skipDepth
           /\ previousLineBlank' = st.previousLineBlank
           /\ fcResult' = st.result
           /\ keptAt' = IF Len(st.result) > Len(fcResult)
                        THEN keptAt \cup {fcIndex} ELSE keptAt
    /\ fcIndex' = fcIndex + 1
    /\ UNCHANGED << walkVars, clientVars, genVars, extractVars, parseVars, fcContent, calloutTypes, fcPc,
                    fcLines, fcReturn >>

\* mutant: the kept lines are joined with a space
FilterJoin_Space ==
    /\ fcPc = "loop"
    /\ fcIndex > Len(fcLines)
    /\ fcReturn' = Join(fcResult, <<" ">>)
    /\ fcPc' = "done"
    /\ UNCHANGED << walkVars, clientVars, genVars, extractVars, parseVars, fcContent, calloutTypes, fcLines,
                    fcIndex, skipDepth, previousLineBlank, fcResult, keptAt >>

\* return result.join("\n")
FilterJoin ==
    /\ fcPc = "loop"
    /\ fcIndex > Len(fcLines)
    /\ fcReturn' = Join(fcResult, <<"\n">>)
    /\ fcPc' = "done"
    /\ UNCHANGED << walkVars, clientVars, genVars, extractVars, parseVars, fcContent, calloutTypes, fcLines,
                    fcIndex, skipDepth, previousLineBlank, fcResult, keptAt >>

FilterNext ==
    \/ FilterNoTypes
    \/ FilterSplit
    \/ FilterLine
    \/ FilterJoin

FilterSpec == FilterInit /\ [][FilterNext]_vars

\* the whitespace an indented line starts with
Indent == <<" ">>

\* filterCallouts on the same texts with every line indented, as the lines
\* of a quote inside a list item are
IndentedInit ==
    /\ WalkIdle
    /\ ClientIdle
    /\ ExtractIdle
    /\ ParseIdle
    /\ GenIdle
    /\ \E n \in 1..MaxLines : \E doc \in [1..n -> CalloutLines] :
           fcContent = Join([i \in 1..n |-> Indent \o doc[i].text], <<"\n">>)
    /\ calloutTypes \in TypeConfigs
    /\ fcPc = "start"
    /\ fcLines = <<>>
    /\ fcIndex = 1
    /\ skipDepth = -1
    /\ previousLineBlank = FALSE
    /\ fcResult = <<>>
    /\ fcReturn = NoResult
    /\ keptAt = {}

IndentedSpec == IndentedInit /\ [][FilterNext]_vars

\* the entry of a note that was linked as a whole from the source
WholeNoteEntry == TrackReference(NewRef(MdFile(<<"B">>), 0), NoSubpath)

\* the text expandLinkedFiles hands to filterCallouts: the editor's text
\* alone, or the editor's text followed by the separator and the block of
\* one linked note
Assembled(text, linked) ==
    FinalText(text, IF linked = <<>> THEN <<>> ELSE EntryBlocks(WholeNoteEntry, linked))

\* lines i..j of doc, joined
LinesText(doc, i, j) == Join([m \in 1..(j - i + 1) |-> doc[i + m - 1].text], <<"\n">>)

\* filterCallouts on the text expandLinkedFiles returns: of up to
\* MaxLines - 1 lines, the first k are the editor's and the rest the linked
\* note's
AssembledInit ==
    /\ WalkIdle
    /\ ClientIdle
    /\ ExtractIdle
    /\ ParseIdle
    /\ GenIdle
    /\ \E n \in 1..(MaxLines - 1) : \E doc \in [1..n -> CalloutLines] : \E k \in 0..n :
           fcContent = Assembled(LinesText(doc, 1, k), LinesText(doc, k + 1, n))
    /\ calloutTypes \in TypeConfigs
    /\ fcPc = "start"
    /\ fcLines = <<>>
    /\ fcIndex = 1
    /\ skipDepth = -1
    /\ previousLineBlank = FALSE
    /\ fcResult = <<>>
    /\ fcReturn = NoResult
    /\ keptAt = {}

AssembledSpec == AssembledInit /\ [][FilterNext]_vars

\* filterCallouts is called again, on the text the call before returned
\* and with the same types; the variables of the loop hold what the call
\* before left in them until the new call sets its own
FilterAgain ==
    /\ fcPc = "done"
    /\ fcContent' = fcReturn
    /\ fcReturn' = NoResult
    /\ keptAt' = {}
    /\ fcPc' = "start"
    /\ UNCHANGED << walkVars, clientVars, genVars, extractVars, parseVars, calloutTypes, fcLines, fcIndex,
                    skipDepth, previousLineBlank, fcResult >>

\* the texts of up to MaxLines - 1 lines, filtered over and over
RefilterInit ==
    /\ WalkIdle
    /\ ClientIdle
    /\ ExtractIdle
    /\ ParseIdle
    /\ GenIdle
    /\ \E n \in 1..(MaxLines - 1) : \E doc \in [1..n -> CalloutLines] :
           fcContent = LinesText(doc, 1, n)
    /\ calloutTypes \in TypeConfigs
    /\ fcPc = "start"
    /\ fcLines = <<>>
    /\ fcIndex = 1
    /\ skipDepth = -1
    /\ previousLineBlank = FALSE
    /\ fcResult = <<>>
    /\ fcReturn = NoResult
    /\ keptAt = {}

RefilterNext ==
    \/ FilterNext
    \/ FilterAgain

RefilterSpec == RefilterInit /\ [][RefilterNext]_vars

(***************************************************************************)
(* Content generation: generateContentWithEditor and getGeneratedContent,  *)
(* the conversation contexts kept between runs, and the external filters.  *)
(* A run is asynchronous: other runs, the clock and the reaper take their  *)
(* steps at each of its awaits.                                            *)
(***************************************************************************)
CONTEXT_TTL_MS == 30 * 60 * 1000

\* buildContextKey returned null
NullKey == <<"null">>

\* mutant: the key names the prompt only
buildContextKey_PromptOnly(file, resolvedPrompt, promptKey) ==
    IF resolvedPrompt.isContinuous # "true" THEN NullKey
    ELSE IF resolvedPrompt.sourcePath \notin {Undefined, <<>>}
    THEN resolvedPrompt.sourcePath ELSE promptKey

\* mutant: a key is built whatever isContinuous says
buildContextKey_Always(file, resolvedPrompt, promptKey) ==
    LET promptSource == IF resolvedPrompt.sourcePath \notin {Undefined, <<>>}
                        THEN resolvedPrompt.sourcePath ELSE promptKey
    IN  file.path \o <<":", ":">> \o promptSource

\* `${file.path}::${promptSource}`, or null unless isContinuous is true
buildContextKey(file, resolvedPrompt, promptKey) ==
    IF resolvedPrompt.isContinuous # "true" THEN NullKey
    ELSE LET promptSource == IF resolvedPrompt.sourcePath \notin {Undefined, <<>>}
                             THEN resolvedPrompt.sourcePath ELSE promptKey
         IN  file.path \o <<":", ":">> \o promptSource

\* mutant: an entry never expires
Expired_Never(entry, t) == FALSE

\* Date.now() - entry.timestamp > CONTEXT_TTL_MS
Expired(entry, t) == t - entry.timestamp > CONTEXT_TTL_MS

\* this.promptContexts: the entries of the Map, one per key (the order of
\* insertion is read nowhere: cullExpiredContexts goes through all of them)
HasContext(map, key) == \E e \in map : e.key = key

GetContext(map, key) == CHOOSE e \in map : e.key = key

\* promptContexts.delete(key)
DeleteContext(map, key) == {e \in map : e.key # key}

\* promptContexts.set(key, { context, timestamp })
SetContext(map, key, context, timestamp) ==
    DeleteContext(map, key)
        \cup { [key |-> key, context |-> context, timestamp |-> timestamp] }

\* getContextForKey(key): the context returned and the Map it leaves
getContextForKey(map, key, t) ==
    IF key = NullKey \/ key = <<>> THEN [context |-> Undefined, map |-> map]
    ELSE IF ~HasContext(map, key) THEN [context |-> Undefined, map |-> map]
    ELSE IF Expired(GetContext(map, key), t)
    THEN [context |-> Undefined, map |-> DeleteContext(map, key)]
    ELSE [context |-> GetContext(map, key).context, map |-> map]

\* cullExpiredContexts(): the Map without its expired entries
cullExpiredContexts(map, t) == {e \in map : ~Expired(e, t)}

\* storeContextForKey(key, context): the Map it leaves
storeContextForKey(map, key, context, t) ==
    IF Len(context) = 0 THEN DeleteContext(map, key)
    ELSE cullExpiredContexts(SetContext(map, key, context, t), t)

\* window.promptFlow.filters: "a" and "b" each append their letter to the
\* text, "x" throws; no other name is registered.  A filter name is written
\* as one string, a function as the name it is registered under
WindowFilters(filterName) ==
    IF filterName \in {"a", "b", "x"} THEN filterName ELSE "undefined"

\* filterFn threw
Thrown == <<"throw">>

\* filterFn(processedContent)
CallFilter(filterFn, text) ==
    IF filterFn = "x" THEN Thrown ELSE text \o <<filterFn>>

\* mutant: each filter is handed the content as it came
RECURSIVE PrefilterLoop_FromContent(_, _, _, _, _)
PrefilterLoop_FromContent(original, processedContent, filterNames, i, calls) ==
    IF i > Len(filterNames) THEN [text |-> processedContent, calls |-> calls]
    ELSE LET filterFn == WindowFilters(filterNames[i])
         IN  IF filterFn = "undefined"
             THEN PrefilterLoop_FromContent(original, processedContent, filterNames,
                                            i + 1, calls)
             ELSE LET out == CallFilter(filterFn, original)
                      log == Append(calls, [name |-> filterNames[i], input |-> original])
                  IN  IF out = Thrown THEN [text |-> original, calls |-> log]
                      ELSE PrefilterLoop_FromContent(original, out, filterNames,
                                                     i + 1, log)

\* mutant: when a filter throws, the work of the filters before it is kept
RECURSIVE PrefilterLoop_KeepsDone(_, _, _, _, _)
PrefilterLoop_KeepsDone(original, processedContent, filterNames, i, calls) ==
    IF i > Len(filterNames) THEN [text |-> processedContent, calls |-> calls]
    ELSE LET filterFn == WindowFilters(filterNames[i])
         IN  IF filterFn = "undefined"
             THEN PrefilterLoop_KeepsDone(original, processedContent, filterNames,
                                          i + 1, calls)
             ELSE LET out == CallFilter(filterFn, processedContent)
                      log == Append(calls, [name |-> filterNames[i],
                                            input |-> processedContent])
                  IN  IF out = Thrown THEN [text |-> processedContent, calls |-> log]
                      ELSE PrefilterLoop_KeepsDone(original, out, filterNames,
                                                   i + 1, log)

\* the loop of applyPrefilters from filterNames[i] on: the text returned and
\* the calls made (each filter's name and what it was handed)
RECURSIVE PrefilterLoop(_, _, _, _, _)
PrefilterLoop(original, processedContent, filterNames, i, calls) ==
    IF i > Len(filterNames) THEN [text |-> processedContent, calls |-> calls]
    ELSE LET filterFn == WindowFilters(filterNames[i])
         IN  IF filterFn = "undefined"
             THEN PrefilterLoop(original, processedContent, filterNames, i + 1, calls)
             ELSE LET out == CallFilter(filterFn, processedContent)
                      log == Append(calls, [name |-> filterNames[i],
                                            input |-> processedContent])
                  IN  IF out = Thrown THEN [text |-> original, calls |-> log]
                      ELSE PrefilterLoop(original, out, filterNames, i + 1, log)

\* applyPrefilters(content, filterNames); original is its parameter content
applyPrefilters(original, filterNames) ==
    IF filterNames = Undefined \/ Len(filterNames) = 0
    THEN [text |-> original, calls |-> <<>>]
    ELSE PrefilterLoop(original, original, filterNames, 1, <<>>)

\* the bound of the generation model: the clock stops after MaxTicks steps
\* of TickMs
MaxTicks == 3

TickMs == 15 * 60 * 1000

\* a prompt as resolvePromptFromFile resolves it, as far as generation reads
\* it; isContinuous is parseBoolean's result
Prompt(isContinuous, sourcePath, excludeCalloutTypes, filters) ==
    [isContinuous |-> isContinuous, sourcePath |-> sourcePath,
     excludeCalloutTypes |-> excludeCalloutTypes, filters |-> filters]

\* a prompt given in the note's frontmatter or the built-in one: no file
DirectPrompt == Prompt("undefined", Undefined, Undefined, Undefined)

PromptFiles == { <<"p", ".", "m", "d">>, <<"q", ".", "m", "d">> }

\* no run in this slot.  calls and lookup are history: the filters called with
\* what each was handed, and what getContextForKey came upon ("null": no key,
\* "absent", "expired", "fresh")
\* a connection of the settings, as far as getGeneratedContent and createClient
\* read it; found is whether settings.connections has the key at all
Connection(provider, baseUrl, apiKey) ==
    [found |-> TRUE, provider |-> provider, baseUrl |-> baseUrl, apiKey |-> apiKey]

NoConnection == [found |-> FALSE, provider |-> "", baseUrl |-> <<>>, apiKey |-> <<>>]

OllamaLocal == Connection("ollama", <<"u">>, <<>>)

OpenAIRemote == Connection("openai-compatible", <<"u">>, <<"k">>)

\* what getGeneratedContent returns when it has no content
NullResponse == <<"null">>

IdleRun ==
    [pc |-> "idle", note |-> NullFile, resolved |-> DirectPrompt, promptKey |-> <<>>,
     expanded |-> <<>>, documentText |-> <<>>, calls |-> <<>>,
     connection |-> NoConnection,
     contextKey |-> NullKey, context |-> Undefined, lookup |-> "null",
     content |-> NullResponse]

\* the client createClient makes for a connection, or Thrown
createClient(connection) ==
    IF connection.provider = "ollama" THEN <<"OllamaClient">>
    ELSE IF connection.provider = "openai-compatible"
    THEN IF connection.baseUrl = <<>> \/ connection.apiKey = <<>>
         THEN Thrown ELSE <<"OpenAICompatibleClient">>
    ELSE Thrown

\* the prompts of a vault with two continuous prompt files, a prompt file that
\* is not continuous and a prompt without a file; no callout types, no filters
ContextPrompts ==
    { Prompt("true", f, Undefined, Undefined) : f \in PromptFiles }
        \cup { Prompt("false", <<"p", ".", "m", "d">>, Undefined, Undefined), DirectPrompt }

MaxFilters == 4

FilterNames == { "a", "b", "x", "u" }

\* the expanded texts, each with what is left of it without its callouts of
\* type a-i
PipelineTexts ==
    { [text |-> <<"t">>, without |-> <<"t">>],
      [text |-> <<">", " ", "[", "!", "a", "-", "i", "]", " ", "x", "\n", "t">>,
       without |-> <<"t">>],
      [text |-> <<" ">>, without |-> <<" ">>] }

\* two runs at a time: one of any prompt on either of two notes, the other of
\* the continuous prompt p.md on note A.md
ContextEnv ==
    [slots |-> {1, 2},
     notes |-> << { MdFile(<<"A">>), MdFile(<<"B">>) }, { MdFile(<<"A">>) } >>,
     prompts |-> << ContextPrompts,
                    { Prompt("true", <<"p", ".", "m", "d">>, Undefined, Undefined) } >>,
     promptKeys |-> { <<"k">> },
     texts |-> { <<"t">> },
     connections |-> { OllamaLocal }]

\* one run at a time of prompts that list filters: every list of up to
\* MaxFilters names among "a", "b", "x" (registered) and "u" (not
\* registered), over texts with and without a callout to exclude
PipelineEnv ==
    [slots |-> {1},
     notes |-> << { MdFile(<<"A">>) } >>,
     prompts |-> << { Prompt("false", <<"p", ".", "m", "d">>, types, filters) :
                        types \in { Undefined, << <<"q">>, <<"A", "-", "i">> >> },
                        filters \in { Undefined } \cup
                            UNION { [1..n -> FilterNames] : n \in 0..MaxFilters } } >>,
     promptKeys |-> { <<"k">> },
     texts |-> { r.text : r \in PipelineTexts },
     connections |-> { OllamaLocal }]

\* one run at a time of a continuous prompt or of the built-in one, over a
\* text and a blank text, with settings whose connection is missing, has no
\* base URL, has no API key, names no known provider, or is complete
GuardEnv ==
    [slots |-> {1},
     notes |-> << { MdFile(<<"A">>) } >>,
     prompts |-> << { Prompt("true", <<"p", ".", "m", "d">>, Undefined, Undefined),
                      DirectPrompt } >>,
     promptKeys |-> { <<"k">> },
     texts |-> { <<"t">>, <<" ">> },
     connections |-> { NoConnection, Connection("ollama", <<>>, <<>>), OllamaLocal,
                       Connection("openai-compatible", <<"u">>, <<>>), OpenAIRemote,
                       Connection("other", <<"u">>, <<>>) }]

\* the runs, notes, prompts and texts of the vault at hand
GenEnv ==
    IF genEnv = "pipeline" THEN PipelineEnv
    ELSE IF genEnv = "guards" THEN GuardEnv
    ELSE ContextEnv

\* generateContentWithEditor up to the return of expandLinkedFiles: the
\* active note, the resolved prompt and the expanded text
GenResolve(s) ==
    /\ gen[s].pc = "idle"
    /\ \E activeNote \in GenEnv.notes[s], resolved \in GenEnv.prompts[s],
          promptKey \in GenEnv.promptKeys, expandedDocContent \in GenEnv.texts :
           gen' = [gen EXCEPT ![s] =
                      [IdleRun EXCEPT !.pc = "expanded", !.note = activeNote,
                                      !.resolved = resolved, !.promptKey = promptKey,
                                      !.expanded = expandedDocContent]]
    /\ UNCHANGED << walkVars, clientVars, extractVars, parseVars, filterVars, genEnv, now,
                    promptContexts >>

\* getGeneratedContent returned content to generateContentWithEditor
Returned(response) == [IdleRun EXCEPT !.pc = "returned", !.content = response]

\* filterCallouts, applyPrefilters and getGeneratedContent up to the await of
\* checkConnection; a blank text, a connection that is missing or has no
\* base URL, or a client that cannot be created ends the run without content
GenPrepare_NoUrlCheck(s) ==
    /\ gen[s].pc = "expanded"
    /\ LET filteredDocContent ==
               filterCallouts(gen[s].expanded, gen[s].resolved.excludeCalloutTypes)
           processed == applyPrefilters(filteredDocContent, gen[s].resolved.filters)
       IN  \E connection \in GenEnv.connections :
               gen' = [gen EXCEPT ![s] =
                          IF Trim(processed.text) = <<>> THEN Returned(NullResponse)
                          ELSE IF ~connection.found THEN Returned(NullResponse)
                          ELSE IF createClient(connection) = Thrown
                          THEN Returned(NullResponse)
                          ELSE [@ EXCEPT !.pc = "connecting",
                                         !.documentText = processed.text,
                                         !.calls = processed.calls,
                                         !.connection = connection]]
    /\ UNCHANGED << walkVars, clientVars, extractVars, parseVars, filterVars, genEnv, now,
                    promptContexts >>

GenPrepare(s) ==
    /\ gen[s].pc = "expanded"
    /\ LET filteredDocContent ==
               filterCallouts(gen[s].expanded, gen[s].resolved.excludeCalloutTypes)
           processed == applyPrefilters(filteredDocContent, gen[s].resolved.filters)
       IN  \E connection \in GenEnv.connections :
               gen' = [gen EXCEPT ![s] =
                          IF Trim(processed.text) = <<>> THEN Returned(NullResponse)
                          ELSE IF ~connection.found THEN Returned(NullResponse)
                          ELSE IF connection.baseUrl = <<>> THEN Returned(NullResponse)
                          ELSE IF createClient(connection) = Thrown
                          THEN Returned(NullResponse)
                          ELSE [@ EXCEPT !.pc = "connecting",
                                         !.documentText = processed.text,
                                         !.calls = processed.calls,
                                         !.connection = connection]]
    /\ UNCHANGED << walkVars, clientVars, extractVars, parseVars, filterVars, genEnv, now,
                    promptContexts >>

\* checkConnection resolved false
GenNotConnected(s) ==
    /\ gen[s].pc = "connecting"
    /\ gen' = [gen EXCEPT ![s] = Returned(NullResponse)]
    /\ UNCHANGED << walkVars, clientVars, extractVars, parseVars, filterVars, genEnv, now,
                    promptContexts >>

\* checkConnection resolved true: the key is built, the context looked up
\* and the request sent
GenSend(s) ==
    /\ gen[s].pc = "connecting"
    /\ LET contextKey == buildContextKey(gen[s].note, gen[s].resolved, gen[s].promptKey)
           found == getContextForKey(promptContexts, contextKey, now)
       IN  /\ promptContexts' = found.map
           /\ gen' = [gen EXCEPT ![s] =
                          [@ EXCEPT !.pc = "generating", !.contextKey = contextKey,
                                    !.context = found.context,
                                    !.lookup =
                                        IF contextKey = NullKey THEN "null"
                                        ELSE IF ~HasContext(promptContexts, contextKey)
                                        THEN "absent"
                                        ELSE IF found.map # promptContexts
                                        THEN "expired" ELSE "fresh"]]
    /\ UNCHANGED << walkVars, clientVars, extractVars, parseVars, filterVars, genEnv, now >>

\* the context an LLM returns at time t to a run: written as the note, the
\* prompt source and the time of the run it continues, which is what makes
\* one conversation differ from another
NewContext(run, t) ==
    << run.note.path,
       IF run.resolved.sourcePath = Undefined THEN run.promptKey
       ELSE run.resolved.sourcePath,
       <<Digit(t \div TickMs + 1)>> >>

GenerateResult(response, context) == [response |-> response, context |-> context]

\* what handleGenerateRequest resolves to when the request throws
RequestFailed == GenerateResult(NullResponse, Undefined)

\* what the generate of the run's client can resolve to at time t.  Ollama:
\* the server's response trimmed (null when it sent none) with the server's
\* context, absent, empty or new.  OpenAI-compatible: the reply trimmed, null
\* when it is empty, with the history encoded anew either way
GenerateResults(run, t) ==
    {RequestFailed} \cup
        IF createClient(run.connection) = <<"OllamaClient">>
        THEN { GenerateResult(response, context) :
                   response \in { <<>>, <<"r">> },
                   context \in { Undefined, <<>>, NewContext(run, t) } }
        ELSE { GenerateResult(response, NewContext(run, t)) :
                   response \in { NullResponse, <<"r">> } }

\* client.generate resolved: the context of the result is stored when the run
\* has a key, and the response returned
GenReturns(s) ==
    /\ gen[s].pc = "generating"
    /\ \E produced \in GenerateResults(gen[s], now) :
           /\ promptContexts' =
                  IF gen[s].contextKey # NullKey /\ produced.context # Undefined
                  THEN storeContextForKey(promptContexts, gen[s].contextKey,
                                          produced.context, now)
                  ELSE promptContexts
           /\ gen' = [gen EXCEPT ![s] = Returned(produced.response)]
    /\ UNCHANGED << walkVars, clientVars, extractVars, parseVars, filterVars, genEnv, now >>

\* client.generate rejected
GenFails(s) ==
    /\ gen[s].pc = "generating"
    /\ gen' = [gen EXCEPT ![s] = Returned(NullResponse)]
    /\ UNCHANGED << walkVars, clientVars, extractVars, parseVars, filterVars, genEnv, now,
                    promptContexts >>

\* content that generateContentWithEditor inserts: if (content)
Truthy(response) == response # NullResponse /\ response # <<>>

\* generateContentWithEditor after getGeneratedContent: the content, if any,
\* is inserted and the command is over
GenInsert(s) ==
    /\ gen[s].pc = "returned"
    /\ gen' = [gen EXCEPT ![s] = IdleRun]
    /\ UNCHANGED << walkVars, clientVars, extractVars, parseVars, filterVars, genEnv, now,
                    promptContexts >>

\* time passes
Tick ==
    /\ now < MaxTicks * TickMs
    /\ now' = now + TickMs
    /\ UNCHANGED << walkVars, clientVars, extractVars, parseVars, filterVars, genEnv,
                    promptContexts, gen >>

\* the interval of registerContextReaper fires
Reap ==
    /\ promptContexts' = cullExpiredContexts(promptContexts, now)
    /\ UNCHANGED << walkVars, clientVars, extractVars, parseVars, filterVars, genEnv, now, gen >>

GenNext ==
    \/ \E s \in DOMAIN gen :
           \/ GenResolve(s)
           \/ GenPrepare(s)
           \/ GenNotConnected(s)
           \/ GenSend(s)
           \/ GenReturns(s)
           \/ GenFails(s)
           \/ GenInsert(s)
    \/ Tick
    \/ Reap

GenInit ==
    /\ WalkIdle
    /\ ClientIdle
    /\ ExtractIdle
    /\ ParseIdle
    /\ FilterIdle
    /\ genEnv = "contexts"
    /\ now = 0
    /\ promptContexts = {}
    /\ gen = [s \in GenEnv.slots |-> IdleRun]

GenSpec == GenInit /\ [][GenNext]_vars

(***************************************************************************)
(* The same runs in the vault of PipelineEnv.                               *)
(***************************************************************************)
PipelineInit ==
    /\ WalkIdle
    /\ ClientIdle
    /\ ExtractIdle
    /\ ParseIdle
    /\ FilterIdle
    /\ genEnv = "pipeline"
    /\ now = 0
    /\ promptContexts = {}
    /\ gen = [s \in GenEnv.slots |-> IdleRun]

PipelineSpec == PipelineInit /\ [][GenNext]_vars

(***************************************************************************)
(* The same runs with the settings of GuardEnv.                            *)
(***************************************************************************)
GuardInit ==
    /\ WalkIdle
    /\ ClientIdle
    /\ ExtractIdle
    /\ ParseIdle
    /\ FilterIdle
    /\ genEnv = "guards"
    /\ now = 0
    /\ promptContexts = {}
    /\ gen = [s \in GenEnv.slots |-> IdleRun]

GuardSpec == GuardInit /\ [][GenNext]_vars

(***************************************************************************)
(* The OpenAI-compatible client: the conversation it keeps in the context. *)
(* A string is the sequence of its UTF-16 code units, a code unit written  *)
(* as a one-character string, or by its hexadecimal digits when it is a    *)
(* surrogate.                                                              *)
(***************************************************************************)
MaxRequests == 2

\* the code units of U+1F600, an emoji
HiSurrogate == "d83d"

LoSurrogate == "de00"

Emoji == << HiSurrogate, LoSurrogate >>

Quote == "\""

Backslash == "\\"

ChatMessage(role, text) == [role |-> role, content |-> text]

Roles == { "system", "user", "assistant" }

RoleName(role) ==
    CASE role = "system" -> <<"s", "y", "s", "t", "e", "m">>
      [] role = "user" -> <<"u", "s", "e", "r">>
      [] role = "assistant" -> <<"a", "s", "s", "i", "s", "t", "a", "n", "t">>

\* the four hexadecimal digits of a surrogate
HexDigits(unit) ==
    IF unit = HiSurrogate THEN <<"d", "8", "3", "d">> ELSE <<"d", "e", "0", "0">>

\* JSON.stringify of the characters of a string from position i: the quote
\* and the backslash are escaped, and so is a surrogate that is not part of
\* a pair
RECURSIVE QuoteJSONString(_, _)
QuoteJSONString(str, i) ==
    IF i > Len(str) THEN <<>>
    ELSE IF str[i] \in {Quote, Backslash}
    THEN <<Backslash, str[i]>> \o QuoteJSONString(str, i + 1)
    ELSE IF str[i] = HiSurrogate /\ i < Len(str) /\ str[i + 1] = LoSurrogate
    THEN Emoji \o QuoteJSONString(str, i + 2)
    ELSE IF str[i] \in {HiSurrogate, LoSurrogate}
    THEN <<Backslash, "u">> \o HexDigits(str[i]) \o QuoteJSONString(str, i + 1)
    ELSE <<str[i]>> \o QuoteJSONString(str, i + 1)

StringifyString(str) == <<Quote>> \o QuoteJSONString(str, 1) \o <<Quote>>

StringifyMessage(message) ==
    <<"{">> \o StringifyString(<<"r", "o", "l", "e">>) \o <<":">>
        \o StringifyString(RoleName(message.role)) \o <<",">>
        \o StringifyString(<<"c", "o", "n", "t", "e", "n", "t">>) \o <<":">>
        \o StringifyString(message.content) \o <<"}">>

RECURSIVE StringifyMessages(_, _)
StringifyMessages(list, i) ==
    IF i > Len(list) THEN <<>>
    ELSE (IF i > 1 THEN <<",">> ELSE <<>>)
             \o StringifyMessage(list[i]) \o StringifyMessages(list, i + 1)

\* JSON.stringify of an array of messages
JSONStringify(list) == <<"[">> \o StringifyMessages(list, 1) \o <<"]">>

\* the second code unit of a surrogate pair: a low surrogate that follows
\* the high surrogate of its pair.  unit is a code unit with the one before it
SecondOfPair(unit) == unit[1] = LoSurrogate /\ unit[2] = HiSurrogate

FirstOfCodePoint(unit) == ~SecondOfPair(unit)

\* Array.from(string).map(char => char.charCodeAt(0)): Array.from goes by
\* code points, so a surrogate pair is one element, and charCodeAt(0) is the
\* first code unit of the element
FirstCodeUnits(str) ==
    LET units == [i \in 1..Len(str) |-> << str[i], IF i > 1 THEN str[i - 1] ELSE "" >>]
        first == SelectSeq(units, FirstOfCodePoint)
    IN  [i \in 1..Len(first) |-> first[i][1]]

encodeContext(list) == FirstCodeUnits(JSONStringify(list))

\* JSON.parse threw
SyntaxError == [value |-> <<>>, next |-> 0]

\* JSON.parse read a value and stands at position next
Parsed(value, next) == [value |-> value, next |-> next]

Threw(parsed) == parsed.next = 0

\* the surrogate four hexadecimal digits name
UnitOfHex(digits) ==
    IF digits = HexDigits(HiSurrogate) THEN HiSurrogate
    ELSE IF digits = HexDigits(LoSurrogate) THEN LoSurrogate
    ELSE "?"

\* JSON.parse inside a string, the opening quote read: up to the closing one
RECURSIVE ParseChars(_, _, _)
ParseChars(str, i, read) ==
    IF i > Len(str) THEN SyntaxError
    ELSE IF str[i] = Quote THEN Parsed(read, i + 1)
    ELSE IF str[i] = Backslash
    THEN IF i + 1 <= Len(str) /\ str[i + 1] \in {Quote, Backslash}
         THEN ParseChars(str, i + 2, Append(read, str[i + 1]))
         ELSE IF i + 5 <= Len(str) /\ str[i + 1] = "u"
         THEN ParseChars(str, i + 6, Append(read, UnitOfHex(SubSeq(str, i + 2, i + 5))))
         ELSE SyntaxError
    ELSE ParseChars(str, i + 1, Append(read, str[i]))

ParseString(str, i) ==
    IF i <= Len(str) /\ str[i] = Quote THEN ParseChars(str, i + 1, <<>>)
    ELSE SyntaxError

\* the character at i is c
At(str, i, c) == i <= Len(str) /\ str[i] = c

\* JSON.parse of an object {"role":…,"content":…} at position i
ParseMessage(str, i) ==
    IF ~At(str, i, "{") THEN SyntaxError
    ELSE LET roleKey == ParseString(str, i + 1)
         IN  IF Threw(roleKey) \/ ~At(str, roleKey.next, ":") THEN SyntaxError
             ELSE LET role == ParseString(str, roleKey.next + 1)
                  IN  IF Threw(role) \/ ~At(str, role.next, ",") THEN SyntaxError
                      ELSE LET contentKey == ParseString(str, role.next + 1)
                           IN  IF Threw(contentKey)
                                      \/ ~At(str, contentKey.next, ":")
                               THEN SyntaxError
                               ELSE LET text == ParseString(str, contentKey.next + 1)
                                    IN  IF Threw(text)
                                               \/ ~At(str, text.next, "}")
                                               \/ \A r \in Roles : RoleName(r) # role.value
                                        THEN SyntaxError
                                        ELSE Parsed(
                                                 ChatMessage(
                                                     CHOOSE r \in Roles :
                                                         RoleName(r) = role.value,
                                                     text.value),
                                                 text.next + 1)

\* JSON.parse of the elements of an array from position i
RECURSIVE ParseMessages(_, _, _)
ParseMessages(str, i, list) ==
    IF At(str, i, "]")
    THEN IF i = Len(str) THEN Parsed(list, i + 1) ELSE SyntaxError
    ELSE LET from == IF list = <<>> THEN i ELSE i + 1
             message == ParseMessage(str, from)
         IN  IF (list # <<>> /\ ~At(str, i, ",")) \/ Threw(message)
             THEN SyntaxError
             ELSE ParseMessages(str, message.next, Append(list, message.value))

\* JSON.parse of a text that is an array of messages
JSONParse(str) ==
    IF ~At(str, 1, "[") THEN SyntaxError ELSE ParseMessages(str, 2, <<>>)

\* JSON.parse(String.fromCharCode(...context)): fromCharCode makes of every
\* number the code unit it is; isNull when the parse throws
decodeContext(context) ==
    [isNull |-> Threw(JSONParse(context)), messages |-> JSONParse(context).value]

\* what the user writes and what the model replies: plain text, text with a
\* quote, text with an emoji, a reply with white space around it, no reply
DocumentTexts == { <<"a">>, <<Quote, "a">>, <<"a">> \o Emoji }

ReplyTexts == { <<"b">>, <<" ", "b", "\n">>, Emoji, <<Backslash>>, <<>> }

SystemPrompts == { <<"s">>, <<" ">> }

\* the messages of the context handed to generate, none when there is no
\* context, the context is empty or it does not parse
HistoryOf(context) ==
    IF context = Undefined \/ context = <<>> \/ decodeContext(context).isNull
    THEN <<>>
    ELSE decodeContext(context).messages

\* generate resolved with status 200 and the reply streamed: the messages
\* sent, and the context of the result, which the plugin stores for the
\* next request
ChatGenerate ==
    /\ chatRequests < MaxRequests
    /\ \E documentText \in DocumentTexts, reply \in ReplyTexts :
           LET user == ChatMessage("user", documentText)
               conversationHistory ==
                   HistoryOf(chatContext) \o <<user>>
                       \o (IF Trim(reply) # <<>>
                           THEN << ChatMessage("assistant", Trim(reply)) >>
                           ELSE <<>>)
           IN  /\ chatMessages' =
                      (IF Trim(systemPrompt) # <<>>
                       THEN << ChatMessage("system", systemPrompt) >> ELSE <<>>)
                          \o HistoryOf(chatContext) \o <<user>>
               /\ chatContext' = encodeContext(conversationHistory)
               /\ exchanged' = exchanged \o <<user>>
                      \o (IF Trim(reply) # <<>>
                          THEN << ChatMessage("assistant", Trim(reply)) >>
                          ELSE <<>>)
    /\ chatRequests' = chatRequests + 1
    /\ UNCHANGED << walkVars, extractVars, parseVars, filterVars, genVars, probeVars,
                    editorVars, systemPrompt >>

\* the request threw or its status was not 200: no context in the result
ChatFails ==
    /\ chatRequests < MaxRequests
    /\ \E documentText \in DocumentTexts :
           chatMessages' =
               (IF Trim(systemPrompt) # <<>>
                THEN << ChatMessage("system", systemPrompt) >> ELSE <<>>)
                   \o HistoryOf(chatContext) \o << ChatMessage("user", documentText) >>
    /\ chatRequests' = chatRequests + 1
    /\ UNCHANGED << walkVars, extractVars, parseVars, filterVars, genVars, probeVars,
                    editorVars, systemPrompt, chatContext, exchanged >>

ChatNext == ChatGenerate \/ ChatFails

ChatInit ==
    /\ WalkIdle
    /\ ExtractIdle
    /\ ParseIdle
    /\ FilterIdle
    /\ GenIdle
    /\ ProbeIdle
    /\ EditorIdle
    /\ systemPrompt \in SystemPrompts
    /\ chatContext = Undefined
    /\ chatMessages = <<>>
    /\ chatRequests = 0
    /\ exchanged = <<>>

ChatSpec == ChatInit /\ [][ChatNext]_vars

(***************************************************************************)
(* The OpenAI-compatible client: the detection of the API prefix by        *)
(* checkConnection and listModels.                                         *)
(***************************************************************************)
NoPrefix == <<>>

ApiPrefix == <<"/", "a", "p", "i">>

\* the values settings can hold for a connection's apiPrefix: none, the two
\* the client saves, and one the client never saves
SavedPrefixes == { Undefined, NoPrefix, ApiPrefix, <<"/", "x">> }

ProbeMethods == { "checkConnection", "listModels" }

\* a request of `${baseUrl}${prefix}/v1/models` and whether the handler
\* resolved
Probe(prefix, ok) == [prefix |-> prefix, ok |-> ok]

\* the models the handler of listModels makes of a response
ModelLists == { <<>>, << <<"m">> >> }

\* what the method returns when executeModelsRequest resolves
Succeeded(method, models) == IF method = "checkConnection" THEN <<"true">> ELSE models

\* what the method returns when executeModelsRequest rejects: its catch
Caught(method) == IF method = "checkConnection" THEN <<"false">> ELSE <<>>

\* checkConnection or listModels is called and executeModelsRequest entered
ProbeCall(method) ==
    /\ probePc = "idle"
    /\ probePc' = IF apiPrefix # Undefined THEN "saved" ELSE "none"
    /\ probeMethod' = method
    /\ probed' = <<>>
    /\ settingsSaved' = 0
    /\ probeReturn' = NoResult
    /\ prefixBefore' = apiPrefix
    /\ UNCHANGED << walkVars, extractVars, parseVars, filterVars, genVars, chatVars,
                    editorVars,
                    apiPrefix >>

\* the request with the saved prefix resolved: the result is returned and
\* nothing saved
ProbeSavedPrefix_ThenSaves(ok, models) ==
    /\ probePc = "saved"
    /\ probed' = Append(probed, Probe(apiPrefix, ok))
    /\ probePc' = IF ok THEN "done" ELSE "none"
    /\ probeReturn' = IF ok THEN Succeeded(probeMethod, models) ELSE probeReturn
    /\ settingsSaved' = IF ok THEN settingsSaved + 1 ELSE settingsSaved
    /\ UNCHANGED << walkVars, extractVars, parseVars, filterVars, genVars, chatVars,
                    editorVars,
                    apiPrefix, probeMethod, prefixBefore >>

ProbeSavedPrefix(ok, models) ==
    /\ probePc = "saved"
    /\ probed' = Append(probed, Probe(apiPrefix, ok))
    /\ probePc' = IF ok THEN "done" ELSE "none"
    /\ probeReturn' = IF ok THEN Succeeded(probeMethod, models) ELSE probeReturn
    /\ UNCHANGED << walkVars, extractVars, parseVars, filterVars, genVars, chatVars,
                    editorVars,
                    apiPrefix, probeMethod, settingsSaved, prefixBefore >>

\* saveApiPrefix: the prefix is stored and the settings saved, if it differs
saveApiPrefix(prefix) ==
    /\ apiPrefix' = prefix
    /\ settingsSaved' = IF apiPrefix # prefix THEN settingsSaved + 1 ELSE settingsSaved

\* the request without prefix resolved or rejected
ProbeNoPrefix(ok, models) ==
    /\ probePc = "none"
    /\ probed' = Append(probed, Probe(NoPrefix, ok))
    /\ IF ok
       THEN /\ saveApiPrefix(NoPrefix)
            /\ probePc' = "done"
            /\ probeReturn' = Succeeded(probeMethod, models)
       ELSE /\ probePc' = "api"
            /\ UNCHANGED << apiPrefix, settingsSaved, probeReturn >>
    /\ UNCHANGED << walkVars, extractVars, parseVars, filterVars, genVars, chatVars,
                    editorVars,
                    probeMethod, prefixBefore >>

\* the request with /api resolved or rejected; the rejection is the method's
\* to catch
ProbeApiPrefix(ok, models) ==
    /\ probePc = "api"
    /\ probed' = Append(probed, Probe(ApiPrefix, ok))
    /\ probePc' = "done"
    /\ IF ok
       THEN /\ saveApiPrefix(ApiPrefix)
            /\ probeReturn' = Succeeded(probeMethod, models)
       ELSE /\ probeReturn' = Caught(probeMethod)
            /\ UNCHANGED << apiPrefix, settingsSaved >>
    /\ UNCHANGED << walkVars, extractVars, parseVars, filterVars, genVars, chatVars,
                    editorVars,
                    probeMethod, prefixBefore >>

\* the method has returned; the client is there for the next call
ProbeOver ==
    /\ probePc = "done"
    /\ probePc' = "idle"
    /\ UNCHANGED << walkVars, extractVars, parseVars, filterVars, genVars, chatVars,
                    editorVars,
                    apiPrefix, probeMethod, probed, settingsSaved, probeReturn,
                    prefixBefore >>

ProbeNext ==
    \/ \E method \in ProbeMethods : ProbeCall(method)
    \/ \E ok \in BOOLEAN, models \in ModelLists :
           \/ ProbeSavedPrefix(ok, models)
           \/ ProbeNoPrefix(ok, models)
           \/ ProbeApiPrefix(ok, models)
    \/ ProbeOver

ProbeInit ==
    /\ WalkIdle
    /\ ExtractIdle
    /\ ParseIdle
    /\ FilterIdle
    /\ GenIdle
    /\ ChatIdle
    /\ EditorIdle
    /\ apiPrefix \in SavedPrefixes
    /\ probePc = "idle"
    /\ probeMethod = "none"
    /\ probed = <<>>
    /\ settingsSaved = 0
    /\ probeReturn = NoResult
    /\ prefixBefore = apiPrefix

ProbeSpec == ProbeInit /\ [][ProbeNext]_vars

(***************************************************************************)
(* The placeholder of ContentGenerator.generateContentWithEditor, in an    *)
(* editor the user goes on working in.  A line is its text and who wrote   *)
(* it; lines are counted from 0, as the editor counts them.                *)
(***************************************************************************)
MaxEdits == 2

\* a line the user wrote, and a line insertPlaceholder or replacePlaceholder wrote
UserLine(text) == [text |-> text, user |-> TRUE]

PluginLine(text) == [text |-> text, user |-> FALSE]

\* frames = ["✻", "✼", "✽", "✼"], written here as *, +, #, +; the prefix is
\* that of wrapInBlockquote
PlaceholderText(frame) ==
    CASE frame = 0 -> "> Thinking *"
      [] frame = 1 -> "> Thinking +"
      [] frame = 2 -> "> Thinking #"
      [] frame = 3 -> "> Thinking +"

PlaceholderTexts == { PlaceholderText(frame) : frame \in 0..3 }

\* line.includes("Thinking"): the placeholder, and a line of the user's
\* that has the word
IncludesThinking(text) == text \in PlaceholderTexts \cup { "Thinking too" }

\* the notes the command can start on; the editor shows A.md
StartingTexts ==
    { << UserLine("a") >>, << UserLine("") >>, << UserLine("a"), UserLine("b") >>,
      << UserLine("a"), UserLine("Thinking too") >> }

\* the note the user may turn to
OtherText == << UserLine("x"), UserLine("y"), UserLine("z"), UserLine("w") >>

\* editor.lastLine()
lastLine(doc) == Len(doc) - 1

\* the lines of doc with the lines from line a up to, not including, line b
\* replaced by lines
Splice(doc, a, b, lines) == SubSeq(doc, 1, a) \o lines \o SubSeq(doc, b + 1, Len(doc))

\* insertPlaceholder: the placeholder is written at the cursor, which stands
\* at the start or at the end of its line, and the interval set
insertPlaceholder ==
    /\ edPc = "idle"
    /\ \E line \in 0..lastLine(docs[shownFile]), atEnd \in BOOLEAN :
           LET doc == docs[shownFile]
               currentLine == doc[line + 1]
               isEmptyLine == currentLine.text = ""
               initialPlaceholder == PluginLine(PlaceholderText(0))
               blank == PluginLine("")
               written ==
                   IF isEmptyLine THEN << initialPlaceholder, blank, currentLine >>
                   ELSE IF atEnd
                   THEN << currentLine, blank, initialPlaceholder, blank, blank >>
                   ELSE << blank, blank, initialPlaceholder, blank, currentLine >>
           IN  /\ docs' = [docs EXCEPT ![shownFile] = Splice(doc, line, line + 1, written)]
               /\ startLine' = IF isEmptyLine THEN line ELSE line + 2
    /\ edPc' = "generating"
    /\ currentFrame' = 0
    /\ animating' = TRUE
    /\ UNCHANGED << walkVars, extractVars, parseVars, filterVars, genVars, chatVars,
                    probeVars, shownFile, generated, userEdits >>

\* the callback of the interval: the next frame is written on line startLine
\* if that line has the word Thinking; a line that is not there throws, which
\* clears the interval, or reads as undefined
AnimationFrame ==
    /\ animating
    /\ currentFrame' = (currentFrame + 1) % 4
    /\ LET doc == docs[shownFile]
       IN  IF startLine > lastLine(doc)
           THEN /\ animating' \in BOOLEAN
                /\ docs' = docs
           ELSE /\ animating' = animating
                /\ docs' =
                       IF IncludesThinking(doc[startLine + 1].text)
                       THEN [docs EXCEPT ![shownFile][startLine + 1] =
                                             PluginLine(PlaceholderText(currentFrame'))]
                       ELSE docs
    /\ UNCHANGED << walkVars, extractVars, parseVars, filterVars, genVars, chatVars,
                    probeVars, edPc, shownFile, startLine, generated, userEdits >>

\* replacePlaceholder: line startLine is replaced, whole, by the formatted
\* content; getLine of a line that is not there throws
replacePlaceholder(doc, formattedContent) ==
    IF startLine > lastLine(doc) THEN doc
    ELSE Splice(doc, startLine, startLine + 1, << PluginLine(formattedContent) >>)

\* removePlaceholder: the text from the start of line startLine to the start
\* of line endLine is removed
removePlaceholder(doc) ==
    LET endLine == IF startLine + 2 < lastLine(doc) THEN startLine + 2 ELSE lastLine(doc)
    IN  IF startLine < endLine THEN Splice(doc, startLine, endLine, <<>>) ELSE doc

\* what getGeneratedContent resolves to: null, an empty response, content
GeneratedContents == { "null", "", "content" }

\* getGeneratedContent has resolved: the interval is cleared and the
\* placeholder replaced, left or removed
GenerationOver(activeNote) ==
    /\ edPc = "generating"
    /\ \E returned \in GeneratedContents :
           /\ generated' = returned
           /\ docs' =
                  IF returned = "content"
                  THEN IF shownFile = activeNote
                       THEN [docs EXCEPT ![shownFile] = replacePlaceholder(@, returned)]
                       ELSE docs
                  ELSE [docs EXCEPT ![shownFile] = removePlaceholder(@)]
    /\ animating' = FALSE
    /\ edPc' = "done"
    /\ UNCHANGED << walkVars, extractVars, parseVars, filterVars, genVars, chatVars,
                    probeVars, shownFile, startLine, currentFrame, userEdits >>

\* the user, while the content is generated: a line typed into the note
UserInsertsLine ==
    /\ edPc = "generating"
    /\ userEdits < MaxEdits
    /\ \E line \in 0..Len(docs[shownFile]) :
           docs' = [docs EXCEPT ![shownFile] = Splice(@, line, line, << UserLine("n") >>)]
    /\ userEdits' = userEdits + 1
    /\ UNCHANGED << walkVars, extractVars, parseVars, filterVars, genVars, chatVars,
                    probeVars, edPc, shownFile, startLine, currentFrame, animating,
                    generated >>

\* a line of the note deleted
UserDeletesLine ==
    /\ edPc = "generating"
    /\ userEdits < MaxEdits
    /\ Len(docs[shownFile]) > 1
    /\ \E line \in 0..lastLine(docs[shownFile]) :
           docs' = [docs EXCEPT ![shownFile] = Splice(@, line, line + 1, <<>>)]
    /\ userEdits' = userEdits + 1
    /\ UNCHANGED << walkVars, extractVars, parseVars, filterVars, genVars, chatVars,
                    probeVars, edPc, shownFile, startLine, currentFrame, animating,
                    generated >>

\* another note opened in the editor, or the first one again
UserOpensFile ==
    /\ edPc = "generating"
    /\ shownFile' = IF shownFile = "A.md" THEN "B.md" ELSE "A.md"
    /\ UNCHANGED << walkVars, extractVars, parseVars, filterVars, genVars, chatVars,
                    probeVars, edPc, docs, startLine, currentFrame, animating, generated,
                    userEdits >>

EditorNext ==
    \/ insertPlaceholder
    \/ AnimationFrame
    \/ GenerationOver("A.md")
    \/ UserInsertsLine
    \/ UserDeletesLine
    \/ UserOpensFile

EditorInit ==
    /\ WalkIdle
    /\ ExtractIdle
    /\ ParseIdle
    /\ FilterIdle
    /\ GenIdle
    /\ ChatIdle
    /\ ProbeIdle
    /\ edPc = "idle"
    /\ shownFile = "A.md"
    /\ \E text \in StartingTexts : docs = [f \in {"A.md", "B.md"} |->
                                              IF f = "A.md" THEN text ELSE OtherText]
    /\ startLine = 0
    /\ currentFrame = 0
    /\ animating = FALSE
    /\ generated = "none"
    /\ userEdits = 0

EditorSpec == EditorInit /\ [][EditorNext]_vars

(***************************************************************************)
(* Reading the state: the blocks pushed so far, the entries                *)
(***************************************************************************)
IsPrefix(p, s) == Len(p) <= Len(s) /\ SubSeq(s, 1, Len(p)) = p

Occurrences(s, pat) ==
    Cardinality({i \in 1..(Len(s) - Len(pat) + 1) : SubSeq(s, i, i + Len(pat) - 1) = pat})

\* expandedContent holds three strings per block: BEGIN line, text, END line
BlockCount == Len(expandedContent) \div 3

BlockName(k) == expandedContent[3 * k - 2]

BlockText(k) == expandedContent[3 * k - 1]

\* the blocks holding a whole document / a snippet of a document
WholeBlocks(path) == {k \in 1..BlockCount : BlockName(k) = BeginEntry(path)}

SnippetBlocks(path) ==
    {k \in 1..BlockCount :
        \E sub \in UNION {Range(seenLinks[i].subpaths) : i \in 1..Len(seenLinks)} :
            BlockName(k) = BeginEntry(path \o <<"#">> \o sub)}

MdPaths == {f.path : f \in {g \in Vault : g.extension = <<"m", "d">>}}

Keys == {seenLinks[i].key : i \in 1..Len(seenLinks)}

NoDuplicates(seq) == \A i, j \in 1..Len(seq) : seq[i] = seq[j] => i = j

(***************************************************************************)
(* C1  Full-reference precedence: a document other than the source that a  *)
(* followed link names bare and a followed link names with a subpath has,  *)
(* in the returned text, exactly one block, which holds its full text, and *)
(* no path#subpath block.                                                  *)
(***************************************************************************)
C1_FullReferencePrecedence ==
    pc = "done" =>
        \A X \in ((bareRef \cap subRef) \cap MdPaths) \ {sourceFile.path} :
            /\ Cardinality(WholeBlocks(X)) = 1
            /\ \A k \in WholeBlocks(X) : \E f \in Vault : f.path = X /\ BlockText(k) = FileContent(f)
            /\ SnippetBlocks(X) = {}

(***************************************************************************)
(* C2  No duplicates: the output holds at most one whole-document block    *)
(* for a document, and no two blocks carry the same sentinel name.         *)
(***************************************************************************)
C2_NoDuplicateBlocks ==
    /\ \A j, k \in 1..BlockCount : BlockName(j) = BlockName(k) => j = k
    /\ \A f \in Vault : Cardinality(WholeBlocks(f.path)) <= 1

\* several distinct links named B.md, which is in the output once
C2_Witness ==
    /\ pc = "done"
    /\ <<"B", ".", "m", "d">> \in bareRef \cap subRef
    /\ Cardinality(WholeBlocks(<<"B", ".", "m", "d">>)) = 1
    /\ BlockCount >= 2

(***************************************************************************)
(* C3  Depth bound: no entry has a depth above MAX_DEPTH; an entry at      *)
(* MAX_DEPTH stays in the map and its links are never examined.            *)
(***************************************************************************)
C3_DepthBound ==
    /\ \A i \in 1..Len(seenLinks) : seenLinks[i].depth \in 0..MAX_DEPTH
    /\ \A i \in 1..Len(expanded) :
           \/ expanded[i] = sourceFile.path
           \/ /\ HasKey(seenLinks, expanded[i])
              /\ GetRef(seenLinks, expanded[i]).depth < MAX_DEPTH
    /\ \A key \in Range(enqueued) \ {sourceFile.path} : HasKey(seenLinks, key)

\* a note at depth MAX_DEPTH left the queue, is in the map and was not expanded
C3_Witness ==
    /\ pc = "done"
    /\ \E i \in 1..Len(seenLinks) :
           /\ seenLinks[i].depth = MAX_DEPTH
           /\ seenLinks[i].file # NullFile
           /\ seenLinks[i].key \in Range(enqueued)
           /\ seenLinks[i].key \notin Range(expanded)

(***************************************************************************)
(* C4  Termination and cycle safety: each resolved document is queued, and  *)
(* has its links examined, at most once, and every step of the traversal   *)
(* loop lowers a rank that is never negative, so the loop ends.            *)
(***************************************************************************)
\* The work left in the loop: the files that may still be queued plus the
\* entries still to shift, then the part of allLinks still to read.  The array
\* a note's cache hands out is finite (here at most MaxLinksPerNote long).
WalkRank ==
    LET unseen == Cardinality({f \in Vault : ~HasKey(seenLinks, f.path)})
        queued == Len(fileQueue) + (IF embeddedLink = Undefined THEN 0 ELSE 1)
        inner  == IF pc = "links"
                  THEN 2 * (MaxLinksPerNote - nLinks) + (IF array = "links" THEN 1 ELSE 0)
                  ELSE 2 * MaxLinksPerNote + 2
    IN  (unseen + queued) * (2 * MaxLinksPerNote + 3) + inner

RankFalls ==
    (pc \in {"loop", "links"} /\ pc' \in {"loop", "links"})
        => (WalkRank' < WalkRank /\ WalkRank' >= 0)

C4_TerminatesVisitingOnce ==
    [](NoDuplicates(enqueued) /\ NoDuplicates(expanded)) /\ [][RankFalls]_vars

\* a cycle: an expanded note linked back to the source, and the call returned
C4_Witness ==
    /\ pc = "done"
    /\ sourceFile.path \in subRef
    /\ Len(expanded) >= 2
    /\ \E i \in 1..Len(seenLinks) : seenLinks[i].key \in bareRef \cap subRef

(***************************************************************************)
(* C5  Read-failure isolation: when the read of a linked document fails,   *)
(* the call still completes and returns a text, in which the failing       *)
(* document has no block.                                                  *)
(***************************************************************************)
C5_ReadFailureIsolated ==
    failedReads # {} =>
        /\ pc \in {"collect", "done"}
        /\ pc = "done" =>
               /\ result # NoResult
               /\ \A X \in failedReads : WholeBlocks(X) = {} /\ SnippetBlocks(X) = {}

(***************************************************************************)
(* C6  Origin exclusion: the source is never a block of its own expansion; *)
(* links to the source reach only the origin entry, which is removed       *)
(* before assembly.                                                        *)
(***************************************************************************)
NamesSource(line) == IsPrefix(BeginPrefix \o sourceFile.path, line)

C7_Examined ==
    /\ (pc = "links" /\ array = "links") => includeLinks
    /\ (pc = "links" /\ cachedLink # NoLink /\ ~MatchesAPattern(cachedLink)) =>
           LET target == GetFirstLinkpathDest(parseLinkReference(cachedLink.link).path,
                                              embeddedLink)
           IN  target # NullFile => HasKey(seenLinks, target.path)

C7_EntryByEmbed ==
    (~includeLinks /\ pc \in {"loop", "links"}
        /\ (Len(seenLinks') > Len(seenLinks) \/ Len(enqueued') > Len(enqueued)))
        => /\ pc = "links" /\ array = "embeds"
           /\ HasKey(seenLinks, embeddedLink)
           /\ nLinks' = nLinks + 1
           /\ LET target == GetFirstLinkpathDest(parseLinkReference(cachedLink'.link).path,
                                                 embeddedLink)
              IN  seenLinks'[Len(seenLinks')].key
                      = IF target = NullFile THEN cachedLink'.link ELSE target.path

C7_LinkKindGating == []C7_Examined /\ [][C7_EntryByEmbed]_vars

\* without includeLinks, embeds were followed over two levels
C7_Witness ==
    /\ ~includeLinks
    /\ pc = "done"
    /\ Len(expanded) >= 2
    /\ \E i \in 1..Len(seenLinks) : seenLinks[i].depth = 2 /\ seenLinks[i].file # NullFile
    /\ BlockCount >= 2

(***************************************************************************)
(* C8  Exclusion patterns: a link whose "[display](target)" rendering      *)
(* matches a global or a prompt pattern leaves seenLinks and the queue as  *)
(* they are; every entry comes from a link that matches no pattern, and a  *)
(* document named by such a link has its entry.                            *)
(***************************************************************************)
C8_Entries ==
    /\ \A i \in 1..Len(seenLinks) :
           IF seenLinks[i].file = NullFile
           THEN \E l \in linkPool : l.link = seenLinks[i].key /\ ~MatchesAPattern(l)
           ELSE seenLinks[i].key = sourceFile.path \/ seenLinks[i].key \in bareRef \cup subRef
    /\ pc # "idle" => (bareRef \cup subRef) \subseteq (Keys \cup {sourceFile.path})

C8_ExcludedLinkStep ==
    (pc = "links" /\ nLinks' = nLinks + 1 /\ MatchesAPattern(cachedLink'))
        => (seenLinks' = seenLinks /\ fileQueue' = fileQueue)

C8_ExclusionPatterns == []C8_Entries /\ [][C8_ExcludedLinkStep]_vars

\* an excluded link to a note that has an entry through another link
C8_Witness ==
    /\ pc = "links"
    /\ cachedLink # NoLink
    /\ MatchesAPattern(cachedLink)
    /\ LET target == GetFirstLinkpathDest(parseLinkReference(cachedLink.link).path,
                                          embeddedLink)
       IN  /\ target # NullFile
           /\ target # sourceFile
           /\ HasKey(seenLinks, target.path)
           /\ GetRef(seenLinks, target.path).subpaths = <<>>

(***************************************************************************)
(* C9  Unresolved links are not fatal: such a link makes, once per raw     *)
(* link text, an entry with no file one level below the note that holds    *)
(* it; the entry is never queued and yields no block, and the loop goes on *)
(* with the next link.                                                     *)
(***************************************************************************)
Unresolvable(link) ==
    \A f \in Vault :
        GetFirstLinkpathDest(parseLinkReference(link).path, f.path) = NullFile

C9_Entries ==
    /\ NoDuplicates([i \in 1..Len(seenLinks) |-> seenLinks[i].key])
    /\ \A i \in 1..Len(seenLinks) :
           seenLinks[i].file = NullFile =>
               /\ Unresolvable(seenLinks[i].key)
               /\ seenLinks[i].depth \in 1..MAX_DEPTH
               /\ seenLinks[i].key \notin Range(enqueued) \cup Range(fileQueue)
               /\ ~seenLinks[i].hasFullReference
               /\ seenLinks[i].subpaths = <<>>
               /\ \A k \in 1..BlockCount :
                      ~IsPrefix(BeginPrefix \o seenLinks[i].key, BlockName(k))

C9_UnresolvedLinkStep ==
    (pc = "links" /\ nLinks' = nLinks + 1 /\ ~MatchesAPattern(cachedLink')
        /\ Unresolvable(cachedLink'.link))
        => /\ pc' = "links"
           /\ fileQueue' = fileQueue
           /\ seenLinks' =
                  IF HasKey(seenLinks, cachedLink'.link) THEN seenLinks
                  ELSE Append(seenLinks,
                              [key |-> cachedLink'.link, hasFullReference |-> FALSE,
                               subpaths |-> <<>>, file |-> NullFile,
                               depth |-> GetRef(seenLinks, embeddedLink).depth + 1])

C9_UnresolvedNotFatal == []C9_Entries /\ [][C9_UnresolvedLinkStep]_vars

\* an unresolved link was recorded, later links were followed and gave blocks
C9_Witness ==
    /\ pc = "done"
    /\ BlockCount >= 1
    /\ \E i \in 1..Len(seenLinks) :
           /\ seenLinks[i].file = NullFile
           /\ seenLinks[i].depth = 2
           /\ i < Len(seenLinks)

(***************************************************************************)
(* C10  Assembly framing: the returned text is the original text when no   *)
(* entry yields a block, and otherwise the original text, one separator    *)
(* header and the blocks; the original text is a prefix of it either way.  *)
(***************************************************************************)
C10_AssemblyFraming ==
    pc = "done" =>
        LET yielding == {i \in 1..Len(seenLinks) :
                            /\ seenLinks[i].file \in Vault
                            /\ seenLinks[i].file.extension = <<"m", "d">>}
        IN  /\ IsPrefix(content, result)
            /\ IF yielding = {}
               THEN result = content
               ELSE /\ BlockCount >= Cardinality(yielding)
                    /\ result = content \o EmbeddedHeader \o Join(expandedContent, <<"\n">>)
                    /\ Occurrences(result, EmbeddedHeader) = 1
                    /\ Occurrences(result, BeginPrefix) = BlockCount

\* entries were found (an unresolved link, an image) and none yields a block
C10_Witness ==
    /\ pc = "done"
    /\ Len(seenLinks) >= 2
    /\ result = content

(***************************************************************************)
(* C11  Subpath blocks: a resolved markdown entry without a full reference *)
(* has, in the output, exactly one block per distinct recorded subpath,    *)
(* named path#subpath, in the order the subpaths were first met, and no    *)
(* whole-document block; a subpath whose heading or block id is not in the *)
(* document still has its block, with empty text, and the call returns.    *)
(***************************************************************************)
\* the subpath names no block id and no heading of the file's cache
AnchorMissing(file, subpath) ==
    LET cache == FileCache(file)
    IN  IF Len(subpath) >= 1 /\ subpath[1] = "^"
        THEN \A b \in cache.blocks : b.id # Tail(subpath)
        ELSE \A i \in 1..Len(cache.headings) :
                 cache.headings[i].heading # ReplacePercent20(subpath)

C11_Blocks ==
    /\ pc = "done" => result # NoResult
    /\ pc \in {"collect", "done"} =>
           \A i \in 1..Len(seenLinks) :
               (i < pos /\ ~SkipCollect(seenLinks[i]) /\ ~seenLinks[i].hasFullReference) =>
                   LET path  == seenLinks[i].file.path
                       subs  == seenLinks[i].subpaths
                       named == {k \in 1..BlockCount :
                                    IsPrefix(BeginPrefix \o path \o <<"#">>, BlockName(k))}
                   IN  /\ NoDuplicates(subs)
                       /\ Cardinality(named) = Len(subs)
                       /\ WholeBlocks(path) = {}
                       /\ \E base \in 0..(BlockCount - Len(subs)) :
                              \A n \in 1..Len(subs) :
                                  /\ BlockName(base + n) = BeginEntry(path \o <<"#">> \o subs[n])
                                  /\ AnchorMissing(seenLinks[i].file, subs[n])
                                         => BlockText(base + n) = <<>>

\* a followed link with a subpath leaves the subpath recorded for its target,
\* after those recorded before; nothing else changes what is recorded
C11_SubpathRecorded ==
    (pc = "links" /\ nLinks' = nLinks + 1) =>
        LET ref == parseLinkReference(cachedLink'.link)
            old(i) == IF i <= Len(seenLinks) THEN seenLinks[i].subpaths ELSE <<>>
        IN  /\ \A i \in 1..Len(seenLinks') :
                   \/ seenLinks'[i].subpaths = old(i)
                   \/ /\ seenLinks'[i].subpaths = Append(old(i), ref.subpath)
                      /\ ref.subpath \notin Range(old(i))
                      /\ seenLinks'[i].file =
                             GetFirstLinkpathDest(ref.path, embeddedLink)
            /\ (~MatchesAPattern(cachedLink') /\ ref.subpath # NoSubpath /\ ref.subpath # <<>>
                    /\ GetFirstLinkpathDest(ref.path, embeddedLink) # NullFile) =>
                   \E i \in 1..Len(seenLinks') :
                       /\ seenLinks'[i].file = GetFirstLinkpathDest(ref.path, embeddedLink)
                       /\ ref.subpath \in Range(seenLinks'[i].subpaths)

C11_SubpathBlocks == []C11_Blocks /\ [][C11_SubpathRecorded]_vars

\* two subpaths of one document, one of them naming nothing, gave two blocks
C11_Witness ==
    /\ pc = "done"
    /\ \E i \in 1..Len(seenLinks) :
           /\ ~SkipCollect(seenLinks[i])
           /\ ~seenLinks[i].hasFullReference
           /\ Len(seenLinks[i].subpaths) >= 2
           /\ AnchorMissing(seenLinks[i].file, seenLinks[i].subpaths[1])
           /\ ~AnchorMissing(seenLinks[i].file, seenLinks[i].subpaths[2])
           /\ BlockCount >= 2

(***************************************************************************)
(* C12  Heading extraction: for a heading subpath, with %20 read as a      *)
(* space, that equals the text of a heading, the result is the trimmed     *)
(* text from the end of the first such heading's line to the next later    *)
(* heading of the same or a shallower level, or to the end of the          *)
(* document; deeper headings in between are part of it; when no heading    *)
(* has that text the result is the empty string.                           *)
(***************************************************************************)
\* the subpaths asked for, with %20 read as a space
SpaceRead(subpath) ==
    IF subpath = <<"H", "%", "2", "0", "G">> THEN <<"H", " ", "G">> ELSE subpath

\* the lines of the sections n..last after the heading line of n, line ends
\* between them
RECURSIVE SectionLines(_, _, _)
SectionLines(sections, n, last) ==
    Paragraph(sections, n)
    \o (IF n >= last THEN <<>>
        ELSE <<"\n">> \o HeadingLine(sections, n + 1) \o <<"\n">>
             \o SectionLines(sections, n + 1, last))

C12_HeadingExtraction ==
    (snippet # NoResult /\ docCached /\ docSubpath[1] # "^") =>
        LET wanted == SpaceRead(docSubpath)
            hits   == {n \in 1..Len(docSections) : docSections[n].heading = wanted}
        IN  IF hits = {} THEN snippet = <<>>
            ELSE LET n     == CHOOSE h \in hits : \A g \in hits : h <= g
                     stops == {m \in (n + 1)..Len(docSections) :
                                  docSections[m].level <= docSections[n].level}
                     last  == IF stops = {} THEN Len(docSections)
                              ELSE (CHOOSE m \in stops : \A k \in stops : m <= k) - 1
                 IN  snippet = SectionLines(docSections, n, last)

\* "H%20G" named the first heading; a deeper heading is inside the section,
\* which ends at the next heading of the same level
C12_Witness ==
    /\ snippet # NoResult
    /\ docCached
    /\ docSubpath = <<"H", "%", "2", "0", "G">>
    /\ Len(docSections) = 3
    /\ docSections[1].heading = <<"H", " ", "G">>
    /\ docSections[2].level > docSections[1].level
    /\ docSections[3].level = docSections[1].level
    /\ snippet = Paragraph(docSections, 1) \o <<"\n">> \o HeadingLine(docSections, 2)
                     \o <<"\n">> \o Paragraph(docSections, 2)

(***************************************************************************)
(* C13  Block-anchor extraction: for a subpath that starts with '^', the   *)
(* result is the trimmed text between the offsets of the block whose id    *)
(* follows the '^'; when no block has that id the result is the empty      *)
(* string, also when a heading has the id as its text.                     *)
(***************************************************************************)
C13_BlockExtraction ==
    (snippet # NoResult /\ docCached /\ docSubpath[1] = "^") =>
        LET text  == DocText(docSections)
            found == {b \in DocCache(docSections).blocks : b.id = Tail(docSubpath)}
        IN  IF found = {} THEN snippet = <<>>
            ELSE /\ \A b \in found : snippet = Trim(SubSeq(text, b.start + 1, b.end))
                 /\ snippet = Paragraph(docSections, Len(docSections))

\* the block ^k of a document with several sections was returned
C13_Witness ==
    /\ snippet # NoResult
    /\ docCached
    /\ docSubpath = <<"^", "k">>
    /\ Len(docSections) >= 2
    /\ snippet = <<"b", Digit(Len(docSections)), " ", "^", "k">>

(***************************************************************************)
(* C14  parseLinkReference returns a pair for every link: without a '#'    *)
(* the path is the link and the subpath is null; with one, the path holds  *)
(* no '#' and path + '#' + subpath is the link, so the split is at the     *)
(* first '#' and a later '#' stays in the subpath.                         *)
(***************************************************************************)
C14_SplitAtFirstHash ==
    /\ DOMAIN linkRef = {"path", "subpath"}
    /\ linkRef # NoRef =>
           IF "#" \notin Range(rawLink)
           THEN linkRef.path = rawLink /\ linkRef.subpath = NoSubpath
           ELSE /\ "#" \notin Range(linkRef.path)
                /\ linkRef.subpath # NoSubpath
                /\ linkRef.path \o <<"#">> \o linkRef.subpath = rawLink

\* a link with two '#': the second one is in the subpath
C14_Witness ==
    /\ linkRef # NoRef
    /\ Cardinality({i \in 1..Len(rawLink) : rawLink[i] = "#"}) = 2
    /\ "#" \in Range(linkRef.subpath)
    /\ linkRef.path # <<>>

(***************************************************************************)
(* Reading a run of filterCallouts: what each line is, by the pool         *)
(***************************************************************************)
\* the lines the loop has been through
Processed == IF fcPc \in {"loop", "done"} THEN 1..(fcIndex - 1) ELSE {}

PoolLine(i) == CHOOSE r \in CalloutLines : r.text = fcLines[i]

LineDepth(i) == PoolLine(i).depth

LineKind(i) == PoolLine(i).kind

Dropped(i) == i \notin keptAt

\* the lines j+1..i are all at depth d or deeper
RunFrom(j, i, d) == \A k \in (j + 1)..i : LineDepth(k) >= d

\* line i lies in a region opened by an earlier header of an excluded type
\* that did not itself lie in such a region
RECURSIVE Inside(_)
Inside(i) ==
    \E j \in 1..(i - 1) :
        LineKind(j) = "excluded" /\ ~Inside(j) /\ RunFrom(j, i, LineDepth(j))

\* header j opens an exclusion
Opens(j) == LineKind(j) = "excluded" /\ ~Inside(j)

\* the kept lines from position i on, in order
RECURSIVE KeptFrom(_)
KeptFrom(i) ==
    IF i > Len(fcLines) THEN <<>>
    ELSE (IF i \in keptAt THEN <<fcLines[i]>> ELSE <<>>) \o KeptFrom(i + 1)

\* the returned text is the kept lines, joined
OutputIsKept ==
    (fcPc = "done" /\ ~NoTypes(calloutTypes)) => fcReturn = Join(KeptFrom(1), <<"\n">>)

(***************************************************************************)
(* C15  filterCallouts returns its input, character for character, when    *)
(* the list of types is empty or undefined, whatever callouts the text     *)
(* holds.                                                                  *)
(***************************************************************************)
C15_IdentityWithoutTypes ==
    (fcPc = "done" /\ (calloutTypes = Undefined \/ calloutTypes = <<>>)) =>
        fcReturn = fcContent

\* a text with callout headers and a blank last line came back unchanged
C15_Witness ==
    /\ fcPc = "done"
    /\ calloutTypes = <<>>
    /\ Contains(fcContent, <<"[", "!", "a", "-", "i", "]">>)
    /\ Contains(fcContent, <<">", " ", ">", " ", "t">>)
    /\ fcContent[Len(fcContent)] = "\n"
    /\ fcReturn = fcContent

(***************************************************************************)
(* C16  Nested exclusion ends at the first shallower line: a header of an  *)
(* excluded type at depth d, at any nesting level, is dropped with every   *)
(* following line of depth >= d up to the first line of depth < d; that    *)
(* line is kept unless it is itself a header of an excluded type, which    *)
(* then opens an exclusion at its own depth; the lines before the header   *)
(* that lie in no exclusion stay.                                          *)
(***************************************************************************)
C16_NestedExclusionEnds ==
    /\ OutputIsKept
    /\ \A j \in Processed : \A i \in Processed :
           (j < i /\ Opens(j) /\ RunFrom(j, i - 1, LineDepth(j))
                 /\ LineDepth(i) < LineDepth(j)) =>
               /\ \A k \in j..(i - 1) : Dropped(k)
               /\ Dropped(i) <=> LineKind(i) = "excluded"
               /\ LineKind(i) = "excluded" =>
                      \A m \in Processed :
                          (m > i /\ RunFrom(i, m, LineDepth(i))) => Dropped(m)
               /\ \A k \in 1..(j - 1) :
                      (~Inside(k) /\ LineKind(k) # "excluded") => ~Dropped(k)

\* a kept callout holds an excluded one: its header and its later line stay
C16_Witness ==
    /\ fcPc = "done"
    /\ Len(fcLines) = 4
    /\ LineKind(1) = "other" /\ LineDepth(1) = 1
    /\ LineKind(2) = "excluded" /\ LineDepth(2) = 2
    /\ LineKind(3) = "text" /\ LineDepth(3) = 2
    /\ LineKind(4) = "text" /\ LineDepth(4) = 1
    /\ keptAt = {1, 4}

(***************************************************************************)
(* C17  An excluded callout removes everything nested in it: after a       *)
(* header of an excluded type at depth d, every line up to the first line  *)
(* shallower than d is dropped, whatever it is: deeper lines, headers of   *)
(* other types and their content, lines of the same depth.                 *)
(***************************************************************************)
C17_ExcludedRemovesNested ==
    /\ Len(fcResult) = Cardinality(keptAt)
    /\ \A j \in Processed : \A i \in Processed :
           (j <= i /\ Opens(j) /\ RunFrom(j, i, LineDepth(j))) =>
               /\ Dropped(i)
               /\ skipDepth = IF i = fcIndex - 1 THEN LineDepth(j) ELSE skipDepth

\* an excluded callout held a callout of another type: nothing of it is left
C17_Witness ==
    /\ fcPc = "done"
    /\ Len(fcLines) = 4
    /\ LineKind(1) = "excluded" /\ LineDepth(1) = 1
    /\ LineKind(2) = "other" /\ LineDepth(2) = 2
    /\ LineKind(3) = "text" /\ LineDepth(3) = 2
    /\ LineKind(4) = "text" /\ LineDepth(4) = 1
    /\ keptAt = {}
    /\ fcReturn = <<>>

(***************************************************************************)
(* C18  Unseparated sibling: while an exclusion at depth d is active, a    *)
(* callout header at depth d that no blank line precedes is dropped,       *)
(* whatever its type, and so is its content; the exclusion goes on         *)
(* through it at depth d.                                                  *)
(***************************************************************************)
IsHeader(i) == LineKind(i) \in {"excluded", "other"}

\* the header and what follows it in the run are not in the result
C18_SiblingDropped ==
    \A j \in Processed : \A i \in Processed : \A m \in Processed :
        (j < i /\ i <= m /\ Opens(j) /\ RunFrom(j, m, LineDepth(j))
               /\ IsHeader(i) /\ LineDepth(i) = LineDepth(j)
               /\ LineKind(i - 1) # "blank") =>
            Dropped(i) /\ Dropped(m)

\* the step over such a header pushes nothing and leaves skipDepth as it is
C18_SiblingStep ==
    (fcPc = "loop" /\ fcIndex <= Len(fcLines) /\ skipDepth >= 0
        /\ IsHeader(fcIndex) /\ LineDepth(fcIndex) = skipDepth
        /\ LineKind(fcIndex - 1) # "blank") =>
        /\ fcResult' = fcResult
        /\ keptAt' = keptAt
        /\ skipDepth' = skipDepth
        /\ fcIndex' = fcIndex + 1

C18_UnseparatedSibling == []C18_SiblingDropped /\ [][C18_SiblingStep]_vars

\* a callout of another type right after an excluded one went with it
C18_Witness ==
    /\ fcPc = "done"
    /\ Len(fcLines) = 4
    /\ LineKind(1) = "other" /\ LineDepth(1) = 1
    /\ LineKind(2) = "excluded" /\ LineDepth(2) = 1
    /\ LineKind(3) = "other" /\ LineDepth(3) = 1
    /\ LineKind(4) = "text" /\ LineDepth(4) = 1
    /\ keptAt = {1}
    /\ fcReturn = fcLines[1]

(***************************************************************************)
(* C19  Blank-line-separated sibling: an excluded callout at depth d, then *)
(* a blank line, then a header at depth d of a type that is not excluded:  *)
(* only the first callout is dropped; the blank line, the second header    *)
(* and the second callout's content stay, for d = 1 and for d >= 2.        *)
(***************************************************************************)
C19_SeparatedSibling ==
    \A j \in Processed : \A b \in Processed :
        (j < b /\ b + 1 \in Processed /\ Opens(j)
               /\ RunFrom(j, b - 1, LineDepth(j))
               /\ LineKind(b) = "blank"
               /\ LineKind(b + 1) = "other" /\ LineDepth(b + 1) = LineDepth(j)) =>
            /\ \A k \in j..(b - 1) : Dropped(k)
            /\ ~Dropped(b)
            /\ ~Dropped(b + 1)
            /\ \A m \in Processed :
                   (m > b + 1 /\ \A k \in (b + 2)..m : LineKind(k) # "excluded") =>
                       ~Dropped(m)

\* nested siblings two levels deep, a blank line between them
C19_Witness ==
    /\ fcPc = "done"
    /\ Len(fcLines) = 4
    /\ LineKind(1) = "excluded" /\ LineDepth(1) = 2
    /\ LineKind(2) = "blank"
    /\ LineKind(3) = "other" /\ LineDepth(3) = 2
    /\ LineKind(4) = "text" /\ LineDepth(4) = 2
    /\ keptAt = {2, 3, 4}
    /\ fcReturn = <<"\n">> \o fcLines[3] \o <<"\n">> \o fcLines[4]

(***************************************************************************)
(* C20  Quote depth is the number of '>' markers of the leading quote run, *)
(* whatever whitespace stands between them: '>>' and '> >' have the same   *)
(* depth, so the same text with the spacing of every quote run changed     *)
(* loses the same lines.                                                   *)
(***************************************************************************)
\* the lines from position i on, each in its other spacing; kept lines only
\* when onlyKept
RECURSIVE RespacedFrom(_, _)
RespacedFrom(i, onlyKept) ==
    IF i > Len(fcLines) THEN <<>>
    ELSE (IF onlyKept /\ i \notin keptAt THEN <<>> ELSE <<PoolLine(i).respaced>>)
             \o RespacedFrom(i + 1, onlyKept)

C20_DepthIgnoresSpacing ==
    /\ \A i \in Processed :
           /\ QuoteDepth(fcLines[i]) = LineDepth(i)
           /\ QuoteDepth(PoolLine(i).respaced) = LineDepth(i)
    /\ (fcPc = "done" /\ ~NoTypes(calloutTypes)) =>
           filterCallouts(Join(RespacedFrom(1, FALSE), <<"\n">>), calloutTypes)
               = Join(RespacedFrom(1, TRUE), <<"\n">>)

\* a header written '>>' took a line written '> >' with it, and a line of
\* depth 1 ended the exclusion
C20_Witness ==
    /\ fcPc = "done"
    /\ fcLines = << <<">", " ", "[", "!", "n", "]">>,
                    <<">", ">", " ", "[", "!", "A", "-", "I", "]">>,
                    <<">", " ", ">", " ", "t">>,
                    <<">", " ", "t">> >>
    /\ keptAt = {1, 4}

(***************************************************************************)
(* C21  filterCallouts only deletes whole lines: the lines of the output   *)
(* are the lines of the input, some left out, in the order of the input    *)
(* and each as it was written.                                             *)
(***************************************************************************)
\* a[i..] can be read off b[j..] by leaving elements of b out
RECURSIVE IsSubsequenceFrom(_, _, _, _)
IsSubsequenceFrom(a, i, b, j) ==
    IF i > Len(a) THEN TRUE
    ELSE IF j > Len(b) THEN FALSE
    ELSE IF a[i] = b[j] THEN IsSubsequenceFrom(a, i + 1, b, j + 1)
    ELSE IsSubsequenceFrom(a, i, b, j + 1)

\* the lines of a text; the empty text has none
LinesOf(text) == IF text = <<>> THEN <<>> ELSE Split(text)

C21_OnlyDeletesLines ==
    /\ fcPc = "loop" =>
           IsSubsequenceFrom(fcResult, 1, SubSeq(fcLines, 1, fcIndex - 1), 1)
    /\ fcPc = "done" =>
           IsSubsequenceFrom(LinesOf(fcReturn), 1, Split(fcContent), 1)

\* of four lines the second and third were deleted, the others came back
\* as they were
C21_Witness ==
    /\ fcPc = "done"
    /\ ~NoTypes(calloutTypes)
    /\ Len(Split(fcContent)) = 4
    /\ Len(fcReturn) > 0
    /\ LinesOf(fcReturn) = << Split(fcContent)[1], Split(fcContent)[4] >>
    /\ Split(fcContent)[1] # Split(fcContent)[4]
    /\ Split(fcContent)[2] # Split(fcContent)[4]

(***************************************************************************)
(* Reading the generation model: a context names the run it came from      *)
(***************************************************************************)
\* the runs
Runs == DOMAIN gen

ContextNote(context) == context[1]

ContextSource(context) == context[2]

\* when the LLM returned the context, which is when it was stored
ContextTime(context) ==
    ((CHOOSE k \in 1..(MaxTicks + 2) : <<Digit(k)>> = context[3]) - 1) * TickMs

\* the prompt file of a run, or its prompt key when it has none
RunSource(run) ==
    IF run.resolved.sourcePath = Undefined THEN run.promptKey
    ELSE run.resolved.sourcePath

\* the contexts stored for the note and prompt of a run
StoredFor(run) ==
    {e \in promptContexts : /\ ContextNote(e.context) = run.note.path
                            /\ ContextSource(e.context) = RunSource(run)}

\* run s sends its request in this step
Sends(s) == gen[s].pc = "connecting" /\ gen'[s].pc = "generating"

(***************************************************************************)
(* C22  Context expiry: a context stored more than 30 minutes ago is never *)
(* passed to a generation request; the lookup that comes upon it deletes   *)
(* it and yields no context, so that the next continuous request finds     *)
(* nothing stored.                                                         *)
(***************************************************************************)
\* every entry carries the time of its store
C22_Stamped ==
    \A e \in promptContexts :
        e.timestamp = ContextTime(e.context) /\ e.timestamp <= now

C22_SendStep ==
    \A s \in Runs :
        Sends(s) =>
            /\ gen'[s].context # Undefined =>
                   now - ContextTime(gen'[s].context) <= 30 * 60 * 1000
            /\ \A e \in StoredFor(gen[s]) :
                   (gen[s].resolved.isContinuous = "true"
                        /\ now - ContextTime(e.context) > 30 * 60 * 1000) =>
                       /\ gen'[s].context = Undefined
                       /\ StoredFor(gen[s])' = {}

C22_ContextExpiry == []C22_Stamped /\ [][C22_SendStep]_vars

\* a continuous run came upon a context stored 45 minutes before: it is gone
\* and the request went without
C22_Witness ==
    \E s \in Runs :
        /\ gen[s].pc = "generating"
        /\ gen[s].resolved.isContinuous = "true"
        /\ gen[s].lookup = "expired"
        /\ gen[s].context = Undefined
        /\ StoredFor(gen[s]) = {}
        /\ now = 3 * TickMs

(***************************************************************************)
(* C23  Continuity is opt-in: a run whose resolved prompt does not have    *)
(* isContinuous true sends its request without context and none of its     *)
(* steps changes the stored contexts, whatever is stored for its note.     *)
(***************************************************************************)
C23_NoContext ==
    \A s \in Runs :
        (gen[s].pc = "generating" /\ gen[s].resolved.isContinuous # "true") =>
            gen[s].context = Undefined /\ gen[s].contextKey = NullKey

C23_RunStep ==
    \A s \in Runs :
        (gen'[s] # gen[s]
            /\ (IF gen[s].pc = "idle" THEN gen'[s] ELSE gen[s]).resolved.isContinuous
                   # "true") =>
            promptContexts' = promptContexts

C23_ContinuityOptIn == []C23_NoContext /\ [][C23_RunStep]_vars

\* a run of p.md, not continuous this time, on a note for which a continuous
\* run of p.md stored a context that has not expired
C23_Witness ==
    \E s \in Runs :
        /\ gen[s].pc = "generating"
        /\ gen[s].resolved.isContinuous = "false"
        /\ gen[s].context = Undefined
        /\ \E e \in StoredFor(gen[s]) : now - e.timestamp <= CONTEXT_TTL_MS

(***************************************************************************)
(* C24  Conversation context is kept per prompt and note: the context a    *)
(* request carries was returned to a run of the same note and the same     *)
(* prompt, never to a run of another note or of another prompt.            *)
(***************************************************************************)
C24_PerPromptAndNote ==
    /\ \A s \in Runs :
           (gen[s].pc = "generating" /\ gen[s].context # Undefined) =>
               /\ ContextNote(gen[s].context) = gen[s].note.path
               /\ ContextSource(gen[s].context) = RunSource(gen[s])
    /\ \A e, f \in promptContexts :
           (ContextNote(e.context) = ContextNote(f.context)
               /\ ContextSource(e.context) = ContextSource(f.context)) => e = f

\* contexts are stored for both notes and both prompts; the run of q.md on
\* B.md carries the one of B.md and q.md
C24_Witness ==
    /\ Cardinality(promptContexts) = 4
    /\ \E s \in Runs :
           /\ gen[s].pc = "generating"
           /\ gen[s].note.path = <<"B", ".", "m", "d">>
           /\ gen[s].resolved.sourcePath = <<"q", ".", "m", "d">>
           /\ gen[s].context # Undefined
           /\ ContextNote(gen[s].context) = <<"B", ".", "m", "d">>
           /\ ContextSource(gen[s].context) = <<"q", ".", "m", "d">>

(***************************************************************************)
(* Reading a run of the pipeline: the filters that should be called        *)
(***************************************************************************)
\* the names of the list that are registered, in the order of the list
RegisteredNames(filters) ==
    IF filters = Undefined THEN <<>>
    ELSE SelectSeq(filters, LAMBDA name : WindowFilters(name) # "undefined")

\* the text after expansion and callout filtering
FilteredText(run) ==
    IF run.resolved.excludeCalloutTypes = Undefined THEN run.expanded
    ELSE (CHOOSE r \in PipelineTexts : r.text = run.expanded).without

\* what the i-th registered filter is handed when each gets the output of
\* the one before
RECURSIVE HandedTo(_, _)
HandedTo(run, i) ==
    IF i = 1 THEN FilteredText(run)
    ELSE LET names == RegisteredNames(run.resolved.filters)
         IN  CallFilter(WindowFilters(names[i - 1]), HandedTo(run, i - 1))

\* the output of the i-th registered filter
OutputOf(run, i) ==
    CallFilter(WindowFilters(RegisteredNames(run.resolved.filters)[i]), HandedTo(run, i))

\* the registered filters that throw on what they are handed
Throwers(run) ==
    {i \in 1..Len(RegisteredNames(run.resolved.filters)) : OutputOf(run, i) = Thrown}

\* the runs that have been through applyPrefilters
Filtered == {s \in Runs : gen[s].pc \in {"connecting", "generating"}}

(***************************************************************************)
(* C25  as claimed: the registered filters of the list are all called, in  *)
(* the order of the list, each with the output of the one before, names    *)
(* that are not registered are skipped, and the text sent to the LLM is    *)
(* the output of the last filter.                                          *)
(***************************************************************************)
C25_FiltersInOrder ==
    \A s \in Filtered :
        LET run   == gen[s]
            names == RegisteredNames(run.resolved.filters)
        IN  /\ Len(run.calls) = Len(names)
            /\ \A i \in 1..Len(names) :
                   /\ run.calls[i].name = names[i]
                   /\ run.calls[i].input = HandedTo(run, i)
            /\ run.documentText =
                   IF names = <<>> THEN FilteredText(run)
                   ELSE OutputOf(run, Len(names))

(***************************************************************************)
(* C25  as amended: the registered filters are called in the order of the  *)
(* list, each with the output of the one before, after expansion and       *)
(* callout filtering; names whose lookup yields no function are skipped;   *)
(* when no filter throws, all are called and the text sent is the output   *)
(* of the last one; when one throws, none after it is called and the text  *)
(* sent is the callout-filtered text as it was before the first filter.    *)
(***************************************************************************)
C25_FiltersUnlessThrown ==
    \A s \in Filtered :
        LET run   == gen[s]
            names == RegisteredNames(run.resolved.filters)
            first == CHOOSE i \in Throwers(run) : \A j \in Throwers(run) : i <= j
        IN  /\ Len(run.calls) <= Len(names)
            /\ \A i \in 1..Len(run.calls) :
                   /\ run.calls[i].name = names[i]
                   /\ run.calls[i].input = HandedTo(run, i)
            /\ Throwers(run) = {} =>
                   /\ Len(run.calls) = Len(names)
                   /\ run.documentText =
                          IF names = <<>> THEN FilteredText(run)
                          ELSE OutputOf(run, Len(names))
            /\ Throwers(run) # {} =>
                   /\ Len(run.calls) = first
                   /\ run.documentText = FilteredText(run)

\* filters b, u, a, x on a text with an excluded callout: b and a were
\* called in turn, u skipped, x threw, and the request carries the text
\* without the callout and without the work of b and a
C25_Witness ==
    \E s \in Runs :
        /\ gen[s].pc = "generating"
        /\ gen[s].resolved.filters = <<"b", "u", "a", "x">>
        /\ gen[s].resolved.excludeCalloutTypes # Undefined
        /\ Len(gen[s].expanded) > 1
        /\ gen[s].calls = << [name |-> "b", input |-> <<"t">>],
                             [name |-> "a", input |-> <<"t", "b">>],
                             [name |-> "x", input |-> <<"t", "b", "a">>] >>
        /\ gen[s].documentText = <<"t">>

(***************************************************************************)
(* The walk, link by link                                                  *)
(***************************************************************************)

\* the step that takes one link of allLinks
TakesLink == pc = "links" /\ nLinks' = nLinks + 1

\* the document being expanded when a link is taken
Expanding == GetRef(seenLinks, embeddedLink)

\* the file the link taken resolves to from that document, or NullFile
TargetOfLink ==
    GetFirstLinkpathDest(parseLinkReference(cachedLink'.link).path, Expanding.file.path)

\* the link taken is not excluded and its path resolves
Followed == ~MatchesAPattern(cachedLink') /\ TargetOfLink # NullFile

\* the link taken has no subpath (an empty one counts as none)
BareLink ==
    LET subpath == parseLinkReference(cachedLink'.link).subpath
    IN  subpath = NoSubpath \/ subpath = <<>>

\* C26, one step: a followed link is applied to the entry of its target
C26_LinkStep ==
    (TakesLink /\ Followed) =>
        LET key == TargetOfLink.path
        IN  /\ HasKey(seenLinks', key)
            /\ ~HasKey(seenLinks, key) =>
                   /\ seenLinks' = Append(seenLinks, GetRef(seenLinks', key))
                   /\ fileQueue' = Append(fileQueue, key)
            /\ BareLink => GetRef(seenLinks', key).hasFullReference
            /\ ~BareLink =>
                   parseLinkReference(cachedLink'.link).subpath
                       \in Range(GetRef(seenLinks', key).subpaths)

\* C26: every followed link counts. While a document is expanded, each link
\* that is not excluded and whose path resolves from that document is
\* applied to its target's entry: the entry is created and enqueued if
\* absent, hasFullReference is set for a bare link and the subpath is added
\* otherwise, whatever keys the map already holds, the link's own raw text
\* among them.
C26_EveryFollowedLinkCounts == [][C26_LinkStep]_vars

\* the key the link taken names: its target's path, or its raw text when
\* the path does not resolve
NamedKey == IF TargetOfLink = NullFile THEN cachedLink'.link ELSE TargetOfLink.path

\* the keys of a map
KeysOf(map) == {map[i].key : i \in 1..Len(map)}

\* C27, every state: a non-origin entry's depth lies between 1 and MAX_DEPTH,
\* and the map, which is in creation order, is in non-decreasing depth order
C27_Depths ==
    /\ \A i \in 1..Len(seenLinks) :
           IF seenLinks[i].key = sourceFile.path
           THEN seenLinks[i].depth = 0
           ELSE seenLinks[i].depth \in 1..MAX_DEPTH
    /\ \A i, j \in 1..Len(seenLinks) : i < j => seenLinks[i].depth <= seenLinks[j].depth

\* C27, every step: an entry keeps its depth; a non-origin entry is created
\* by a link that is not excluded, under the key the link names, one deeper
\* than the document being expanded (so a chain of that length leads to it);
\* and no link that is examined and not excluded, taken or passed over,
\* names an entry more than one deeper than the document that holds it (so
\* no chain is shorter)
C27_DepthStep ==
    /\ \A key \in KeysOf(seenLinks) \cap KeysOf(seenLinks') :
           GetRef(seenLinks', key).depth = GetRef(seenLinks, key).depth
    /\ \A key \in (KeysOf(seenLinks') \ KeysOf(seenLinks)) \ {sourceFile.path} :
           /\ TakesLink
           /\ ~MatchesAPattern(cachedLink')
           /\ key = NamedKey
           /\ GetRef(seenLinks', key).depth = Expanding.depth + 1
    /\ (TakesLink /\ ~MatchesAPattern(cachedLink') /\ NamedKey \in KeysOf(seenLinks')) =>
           GetRef(seenLinks', NamedKey).depth <= Expanding.depth + 1

\* C27: depth is breadth-first distance. Every non-origin entry's depth is
\* assigned once, when the entry is created, as the depth of the document
\* being expanded plus one, is never changed afterwards, lies between 1 and
\* MAX_DEPTH and is the length of the shortest chain of links from the
\* source to the entry; entries are created in non-decreasing depth order.
C27_DepthIsDistance == []C27_Depths /\ [][C27_DepthStep]_vars

\* while B.md, one link from the source, is expanded, its link to C.md is
\* examined: C.md was created one link from the source, before Z, which is
\* two links away, and keeps depth 1
C27_Witness ==
    /\ pc = "links"
    /\ embeddedLink = <<"B", ".", "m", "d">>
    /\ cachedLink.link = <<"C">>
    /\ HasKey(seenLinks, <<"C", ".", "m", "d">>)
    /\ HasKey(seenLinks, <<"Z">>)
    /\ GetRef(seenLinks, <<"C", ".", "m", "d">>).depth = 1
    /\ GetRef(seenLinks, <<"Z">>).depth = 2
    /\ GetRef(seenLinks, embeddedLink).depth = 1

\* the paths of the entries phase 2 reads, in map insertion order
ReadEntry(entry) == ~SkipCollect(entry)

ToRead ==
    LET entries == SelectSeq(seenLinks, ReadEntry)
    IN  [i \in 1..Len(entries) |-> entries[i].file.path]

\* the call is over: the text was returned, or a read rejected
CallOver == pc \in {"done", "failed"}

\* C28, every state: nothing is read while the queue is in use; the reads
\* made are the first of the resolved markdown entries in map order, each
\* once; when the call is over every one of them was read
C28_Reads ==
    /\ pc \in {"idle", "loop", "links"} => readLog = <<>>
    /\ readLog # <<>> => (fileQueue = <<>> /\ embeddedLink = Undefined)
    /\ Len(readLog) <= Len(ToRead)
    /\ readLog # <<>> => readLog = SubSeq(ToRead, 1, Len(readLog))
    /\ CallOver => readLog = ToRead

\* C28, every step: one read at a time
C28_ReadStep == readLog' = readLog \/ \E path \in Range(ToRead) : readLog' = Append(readLog, path)

\* C28: two-phase ordering of reads. No linked document's content is read
\* before the traversal queue is empty; afterwards each resolved markdown
\* entry of the map is read exactly once, one read at a time in map
\* insertion order, and unresolved or non-markdown entries are never read.
C28_TwoPhaseReads == []C28_Reads /\ [][C28_ReadStep]_vars

\* the lines read so far, without their indentation
PlainLines == [i \in 1..(fcIndex - 1) |-> TrimStart(fcLines[i])]

\* what the loop leaves of the same lines written without indentation
PlainResult ==
    CalloutLoop([skipDepth |-> -1, previousLineBlank |-> FALSE, result |-> <<>>],
                PlainLines, 1, calloutTypes).result

\* C29: depth counting and header detection agree on every line. A line
\* whose leading quote run, indented or not, is followed by [!type] is
\* recognised as a callout header of that depth, so an excluded callout
\* whose lines are indented is dropped exactly like the same callout without
\* indentation: the lines kept are the lines kept of the unindented text.
C29_IndentedAlike ==
    fcPc \in {"loop", "done"} =>
        /\ \A i \in 1..(fcIndex - 1) :
               /\ QuoteDepth(fcLines[i]) = QuoteDepth(PlainLines[i])
               /\ CalloutMatch(fcLines[i]) = CalloutMatch(PlainLines[i])
        /\ [k \in 1..Len(fcResult) |-> TrimStart(fcResult[k])] = PlainResult

\* the loop is about to read a line while an exclusion is active
Skipping == fcPc = "loop" /\ fcIndex <= Len(fcLines) /\ skipDepth >= 0

\* the line read by this step is dropped
DropsLine == fcResult' = fcResult /\ keptAt' = keptAt

\* C30, every state of the loop: a skipDepth that is set is at least 1, and
\* previousLineBlank is false with it
C30_SkipState ==
    (fcPc = "loop" /\ skipDepth # -1) => (skipDepth >= 1 /\ ~previousLineBlank)

\* the exclusion goes on after this step exactly when the line is not
\* shallower than skipDepth, a header after a blank line included
C30_LeftOnlyShallower ==
    Skipping =>
        /\ LineDepth(fcIndex) >= skipDepth => skipDepth' = skipDepth
        /\ LineDepth(fcIndex) < skipDepth => skipDepth' \in {-1, LineDepth(fcIndex)}
        /\ (IsHeader(fcIndex) /\ LineDepth(fcIndex) = skipDepth) => fcIndex - 1 \notin keptAt

\* C30 as stated, one step: while an exclusion is active a line is dropped
\* if and only if its depth is >= skipDepth
C30_DroppedIffDeep ==
    /\ C30_LeftOnlyShallower
    /\ Skipping => (DropsLine <=> LineDepth(fcIndex) >= skipDepth)

C30_DroppedIffDeepOrExcluded ==
    /\ C30_LeftOnlyShallower
    /\ Skipping =>
           (DropsLine <=> (LineDepth(fcIndex) >= skipDepth \/ LineKind(fcIndex) = "excluded"))

SeparatorLine == SubSeq(EmbeddedHeader, 2, Len(EmbeddedHeader) - 1)

BeginLine == BeginEntry(WholeNoteEntry.file.path)

EndLine == SubSeq(EndEntry, 1, Len(EndEntry) - 1)

AssemblerLines == {SeparatorLine, BeginLine, EndLine}

\* line i has no quote marker: a line of the assembler, a plain line or a
\* blank line
DepthZero(i) ==
    \/ fcLines[i] \in AssemblerLines
    \/ \E r \in CalloutLines : r.text = fcLines[i] /\ r.depth = 0

\* what the loop leaves of lines i..j read on their own
FilteredAlone(i, j) ==
    CalloutLoop([skipDepth |-> -1, previousLineBlank |-> FALSE, result |-> <<>>],
                SubSeq(fcLines, i, j), 1, calloutTypes).result

\* the position of the separator, when a block was appended
SeparatorAt == {i \in 1..Len(fcLines) : fcLines[i] = SeparatorLine}

\* C31, every state: the lines of depth 0 read so far were kept, and the
\* text returned holds the kept lines; of an assembled text it holds what is
\* left of the editor's text, the separator and BEGIN line, what is left of
\* the linked note read on its own, and the END line
C31_DepthZeroKept ==
    /\ \A i \in Processed : DepthZero(i) => i \in keptAt
    /\ OutputIsKept
    /\ (fcPc = "done" /\ NoTypes(calloutTypes)) => fcReturn = fcContent
    /\ (fcPc = "done" /\ ~NoTypes(calloutTypes)) =>
           \A h \in SeparatorAt :
               fcResult = FilteredAlone(1, h - 1) \o <<SeparatorLine, BeginLine>>
                              \o FilteredAlone(h + 2, Len(fcLines) - 2)
                              \o <<EndLine, <<>>>>

\* C31, every step: a line of depth 0 is kept and ends the exclusion
C31_DepthZeroStep ==
    (fcPc = "loop" /\ fcIndex <= Len(fcLines) /\ DepthZero(fcIndex)) =>
        /\ fcResult' = Append(fcResult, fcLines[fcIndex])
        /\ skipDepth' = -1

\* C31: depth-0 lines always survive. For every text and every list of
\* excluded types each input line of quote depth 0 (blank lines, plain
\* text, the assembler's separator and BEGIN/END lines) is in the output and
\* ends any active exclusion, so an excluded callout at the end of one
\* document never removes lines of the separator or of a following block.
C31_DepthZeroSurvives == []C31_DepthZeroKept /\ [][C31_DepthZeroStep]_vars

\* the editor's text ends in an excluded callout and the linked note starts
\* with a quoted line: the callout is gone, the separator, the BEGIN line
\* and the quoted line stay
C31_Witness ==
    /\ fcPc = "done"
    /\ ~NoTypes(calloutTypes)
    /\ Len(fcLines) = 6
    /\ fcLines[1] = <<">", " ", "[", "!", "a", "-", "i", "]", " ", "x">>
    /\ fcLines[2] = SeparatorLine
    /\ fcLines[3] = BeginLine
    /\ fcLines[4] = <<">", " ", "t">>
    /\ fcLines[5] = EndLine
    /\ keptAt = 2..6

\* the line, indented or not, is the header of a callout of an excluded type
ExcludedHeaderLine(line) ==
    \E r \in CalloutLines : r.kind = "excluded" /\ r.text = TrimStart(line)

\* C32: no excluded header survives. For every text and every non-empty
\* list of excluded types, no line of the output is a callout header whose
\* type is one of the excluded types, compared case-insensitively, at any
\* depth and in any position.
C32_NoExcludedHeaderKept ==
    ~NoTypes(calloutTypes) =>
        /\ \A k \in 1..Len(fcResult) : ~ExcludedHeaderLine(fcResult[k])
        /\ fcPc = "done" => \A line \in Range(Split(fcReturn)) : ~ExcludedHeaderLine(line)

\* a call starts its loop with no exclusion and no blank
\* line behind it, whatever the call before left; what a call returns is
\* what filterCallouts returns for its content read on its own, and
\* filtering the returned text again returns it unchanged
C33_FreshAndFixed ==
    /\ (fcPc = "loop" /\ fcIndex = 1) =>
           (skipDepth = -1 /\ ~previousLineBlank /\ fcResult = <<>>)
    /\ fcPc = "done" =>
           /\ fcReturn = filterCallouts(fcContent, calloutTypes)
           /\ filterCallouts(fcReturn, calloutTypes) = fcReturn

\* C33: filterCallouts is idempotent and stateless across calls. For every
\* text t and type list T, filterCallouts(filterCallouts(t, T), T) =
\* filterCallouts(t, T), and the result of a call does not depend on earlier
\* calls: a call that ends inside an exclusion does not affect the next.
C33_Idempotent == C33_FreshAndFixed

\* the call before ended inside an exclusion at depth 1 and returned a
\* quoted line, which the next call is about to read
C33_Witness ==
    /\ fcPc = "start"
    /\ skipDepth = 1
    /\ fcContent = <<">", " ", "t">>
    /\ fcLines = << <<">", " ", "t">>, <<">", " ", "[", "!", "a", "-", "i", "]", " ", "x">> >>

\* the run's list of filters names a filter that throws
ListsThrower(run) ==
    run.resolved.filters # Undefined /\ "x" \in Range(run.resolved.filters)

\* C34, every state: the text of a run whose list names a filter that throws
\* is the text applyPrefilters was given, the callout-filtered text
C34_GivenText ==
    \A s \in Filtered : ListsThrower(gen[s]) => gen[s].documentText = FilteredText(gen[s])

\* C34, every step: that text is the text of the request
C34_SentStep ==
    \A s \in Runs :
        (Sends(s) /\ ListsThrower(gen[s])) =>
            /\ gen'[s].documentText = FilteredText(gen[s])
            /\ gen'[s].calls = gen[s].calls

\* C34: filter failure falls back to unfiltered text. If any external
\* filter throws, applyPrefilters returns exactly the content it was given,
\* with none of the filters' effects applied, the effects of filters that
\* had already run successfully included, and generation proceeds with that
\* text.
C34_ThrowFallsBack == []C34_GivenText /\ [][C34_SentStep]_vars

\* filters a, x, b: a was called and appended its letter, x threw on the
\* result, b was never called, and the request carries the text as given
C34_Witness ==
    \E s \in Runs :
        /\ gen[s].pc = "generating"
        /\ gen[s].resolved.filters = <<"a", "x", "b">>
        /\ gen[s].calls = << [name |-> "a", input |-> <<"t">>],
                             [name |-> "x", input |-> <<"t", "a">>] >>
        /\ gen[s].documentText = <<"t">>


(***************************************************************************)
(* C35  Generation is guarded: within one command invocation               *)
(* client.generate is called at most once, and only after the processed    *)
(* text was found not blank, the connection found with a base URL, the     *)
(* client created and checkConnection resolved true, in this order; a run  *)
(* that ends anywhere else makes no request, returns no content to insert  *)
(* and leaves the stored contexts as they are.                             *)
(***************************************************************************)
\* the places of a run, in the order the code passes them
C35_Place(place) ==
    CASE place = "idle" -> 0
      [] place = "expanded" -> 1
      [] place = "connecting" -> 2
      [] place = "generating" -> 3
      [] place = "returned" -> 4

\* a run waits for checkConnection or for generate only with a text that is
\* not blank, a connection with a base URL and a client
C35_Guarded ==
    \A s \in Runs :
        gen[s].pc \in {"connecting", "generating"} =>
            /\ Trim(gen[s].documentText) # <<>>
            /\ gen[s].connection.found
            /\ gen[s].connection.baseUrl # <<>>
            /\ createClient(gen[s].connection) # Thrown

C35_RunStep ==
    \A s \in Runs :
        /\ \* the request is sent from the wait for checkConnection only
           (gen'[s].pc = "generating" /\ gen[s].pc # "generating") =>
               gen[s].pc = "connecting"
        /\ \* a run only moves on, or is over: no second request
           (gen'[s].pc # gen[s].pc /\ gen'[s].pc # "idle") =>
               C35_Place(gen'[s].pc) > C35_Place(gen[s].pc)
        /\ (gen'[s].pc # gen[s].pc /\ gen'[s].pc = "idle") => gen[s].pc = "returned"
        /\ \* a run that ends without a request: no content, contexts as before
           (gen'[s].pc = "returned" /\ gen[s].pc \in {"expanded", "connecting"}) =>
               /\ gen'[s].content = NullResponse
               /\ promptContexts' = promptContexts
        /\ \* content to insert comes from a request
           (gen'[s].pc = "returned" /\ gen[s].pc # "returned"
               /\ Truthy(gen'[s].content)) => gen[s].pc = "generating"
        /\ \* the insertion itself leaves the contexts alone
           gen[s].pc = "returned" => promptContexts' = promptContexts \/ gen'[s] = gen[s]

C35_GenerationGuarded == []C35_Guarded /\ [][C35_RunStep]_vars

\* a second continuous request over the OpenAI-compatible connection is out,
\* with the context the first one stored
C35_Witness ==
    \E s \in Runs :
        /\ gen[s].pc = "generating"
        /\ gen[s].connection = OpenAIRemote
        /\ gen[s].context # Undefined


(***************************************************************************)
(* C36  A generation that yields no response (the client returns response  *)
(* null, or the request fails) leaves the stored contexts unchanged, with  *)
(* the Ollama and with the OpenAI-compatible client; only a generation     *)
(* that produced a response replaces the stored context.                   *)
(***************************************************************************)
\* the generation of run s ends in this step
Generated(s) == gen[s].pc = "generating" /\ gen'[s].pc = "returned"

C36_ReturnStep ==
    \A s \in Runs :
        (Generated(s) /\ gen'[s].content = NullResponse) =>
            promptContexts' = promptContexts

C36_NoResponseNoStore == [][C36_ReturnStep]_vars


(***************************************************************************)
(* C37  OpenAI-compatible history accumulation: the context a successful   *)
(* request returns decodes to the previous history followed by the new     *)
(* user message and the assistant's reply, whatever the messages hold; so  *)
(* a request sends the system prompt (if not blank), the earlier messages  *)
(* in order and the new user message, and the system prompt is never in    *)
(* the stored history.                                                     *)
(***************************************************************************)
\* this step is a request that got a reply
Replied == Len(exchanged') = Len(exchanged) + 2

C37_ChatStep ==
    /\ Replied =>
           /\ ~decodeContext(chatContext').isNull
           /\ decodeContext(chatContext').messages =
                  HistoryOf(chatContext)
                      \o SubSeq(exchanged', Len(exchanged) + 1, Len(exchanged) + 2)
    /\ chatRequests' > chatRequests =>
           /\ chatMessages' # <<>>
           /\ chatMessages'[Len(chatMessages')].role = "user"
           /\ SubSeq(chatMessages', 1, Len(chatMessages') - 1) =
                  (IF Trim(systemPrompt) # <<>>
                   THEN << ChatMessage("system", systemPrompt) >> ELSE <<>>)
                      \o exchanged

C37_NoSystem == \A i \in 1..Len(HistoryOf(chatContext)) :
                    HistoryOf(chatContext)[i].role # "system"

C37_HistoryAccumulates == []C37_NoSystem /\ [][C37_ChatStep]_vars


(***************************************************************************)
(* C38  API prefix auto-detection: checkConnection and listModels request  *)
(* the URL of the saved prefix first (if one is saved), then the one       *)
(* without prefix, then the one with /api, and stop at the first that      *)
(* succeeds; after a success apiPrefix is the prefix of the URL that       *)
(* succeeded and the settings were saved only if apiPrefix changed; when   *)
(* every request failed apiPrefix is what it was, checkConnection returns  *)
(* false and listModels an empty list.                                     *)
(***************************************************************************)
\* the prefixes to try, in order, for a method called with prefixBefore saved
ProbeOrder ==
    (IF prefixBefore # Undefined THEN <<prefixBefore>> ELSE <<>>)
        \o << NoPrefix, ApiPrefix >>

\* the method has returned
ProbeDone == probePc \in {"done", "idle"} /\ probeMethod # "none"

C38_InOrder ==
    /\ Len(probed) <= Len(ProbeOrder)
    /\ \A i \in 1..Len(probed) :
           /\ probed[i].prefix = ProbeOrder[i]
           /\ i < Len(probed) => ~probed[i].ok
    /\ probePc \in {"saved", "none", "api"} =>
           /\ \A i \in 1..Len(probed) : ~probed[i].ok
           /\ apiPrefix = prefixBefore
           /\ settingsSaved = 0

C38_AfterSuccess ==
    (ProbeDone /\ probed # <<>> /\ probed[Len(probed)].ok) =>
        /\ apiPrefix = probed[Len(probed)].prefix
        /\ settingsSaved = IF apiPrefix # prefixBefore THEN 1 ELSE 0
        /\ probeMethod = "checkConnection" => probeReturn = <<"true">>

C38_AfterFailure ==
    (ProbeDone /\ \A i \in 1..Len(probed) : ~probed[i].ok) =>
        /\ Len(probed) = Len(ProbeOrder)
        /\ apiPrefix = prefixBefore
        /\ settingsSaved = 0
        /\ probeMethod = "checkConnection" => probeReturn = <<"false">>
        /\ probeMethod = "listModels" => Len(probeReturn) = 0

C38_PrefixDetection == C38_InOrder /\ C38_AfterSuccess /\ C38_AfterFailure

\* checkConnection with a saved prefix that no longer answers: three
\* requests, the last one, with /api, succeeded and /api was saved
C38_Witness ==
    /\ probePc = "done"
    /\ probeMethod = "checkConnection"
    /\ prefixBefore = <<"/", "x">>
    /\ Len(probed) = 3
    /\ probed[3].ok
    /\ apiPrefix = ApiPrefix
    /\ settingsSaved = 1


(***************************************************************************)
(* C39  Placeholder lifecycle: once generation is over the placeholder is  *)
(* resolved, in every outcome: the interval is cleared, and the            *)
(* placeholder is replaced by the content (content, and the editor still   *)
(* shows the note the command started on), or left in place with nothing   *)
(* inserted (content, but another note is shown), or removed (no content). *)
(***************************************************************************)
\* the placeholder stands in the text, and the generated content does
HasPlaceholder(doc) ==
    \E i \in 1..Len(doc) : ~doc[i].user /\ doc[i].text \in PlaceholderTexts

HasContent(doc) == \E i \in 1..Len(doc) : ~doc[i].user /\ doc[i].text = "content"

\* getGeneratedContent resolves in this step
Resolves == edPc = "generating" /\ edPc' = "done"

C39_Resolved ==
    Resolves =>
        /\ ~animating'
        /\ (generated' = "content" /\ shownFile = "A.md") =>
               /\ ~HasPlaceholder(docs'["A.md"])
               /\ HasPlaceholder(docs["A.md"]) => HasContent(docs'["A.md"])
               /\ docs'["B.md"] = docs["B.md"]
        /\ (generated' = "content" /\ shownFile # "A.md") => docs' = docs
        /\ generated' # "content" =>
               /\ ~HasPlaceholder(docs'["A.md"])
               /\ ~HasContent(docs'["A.md"])
               /\ docs'["B.md"] = docs["B.md"]

C39_PlaceholderLifecycle == [][C39_Resolved]_vars


(***************************************************************************)
(* C40  Placeholder writes touch only the placeholder: however the user's  *)
(* insertions and deletions of lines in the note fall between the frames   *)
(* of the animation and the end of generation, the animation,              *)
(* replacePlaceholder and removePlaceholder change only what               *)
(* insertPlaceholder wrote, never a line of the user's.                    *)
(***************************************************************************)
IsUserLine(line) == line.user

\* the lines of the user, in order
UserText(doc) == SelectSeq(doc, IsUserLine)

\* the interval's callback runs in this step
Animates == animating /\ currentFrame' # currentFrame

C40_WriteStep ==
    ((Animates \/ Resolves) /\ shownFile = "A.md") =>
        UserText(docs'["A.md"]) = UserText(docs["A.md"])

C40_OnlyThePlaceholder == [][C40_WriteStep]_vars

=============================================================================
